---- MODULE Spec2Model ----
(***************************************************************************)
(* A model of the nosquealdb table engine: typed attribute values and      *)
(* their binary codec, canonical storage keys, the table with its global   *)
(* and local secondary indexes, conditional put / update / delete, batch   *)
(* writes, two-phase write transactions and index queries.                 *)
(*                                                                         *)
(* Strings are sequences of one-character strings, byte strings are        *)
(* sequences of integers 0..255.  The character domain of the model is     *)
(* printable ASCII, so the UTF-8 encoding of a character is one byte.      *)
(*                                                                         *)
(* A function of the code is one operator of the same name.  Where the     *)
(* function binds a value and goes on with it, the rest of its body is an  *)
(* operator named after the function and the step (put_internal_read is    *)
(* put_internal from the point where the stored item has been read), with  *)
(* the bound values as parameters.                                         *)
(***************************************************************************)
EXTENDS Integers, Sequences, FiniteSets, TLC

\* storage, gsis, lsis: the table; last: the last operation on it and its status.
\* call, ret: a call of one of the pure functions and what it returned
VARIABLES storage, gsis, lsis, last, call, ret

vars == <<storage, gsis, lsis, last, call, ret>>

\* no call of a pure function is under way / has returned
NoCall == [f |-> "none", val |-> "none"]
Pending == [f |-> "pending", val |-> "none"]
Returned(val) == [f |-> "returned", val |-> val]

(***************************************************************************)
(* Characters and strings                                                  *)
(***************************************************************************)

\* printable ASCII, code 32 first (code 96 is spelled out: the lexer rejects it)
Ascii ==
  << " ", "!", "\"", "#", "$", "%", "&", "'", "(", ")", "*", "+", ",", "-", ".", "/",
     "0", "1", "2", "3", "4", "5", "6", "7", "8", "9", ":", ";", "<", "=", ">", "?",
     "@", "A", "B", "C", "D", "E", "F", "G", "H", "I", "J", "K", "L", "M", "N", "O",
     "P", "Q", "R", "S", "T", "U", "V", "W", "X", "Y", "Z", "[", "\\", "]", "^", "_",
     "grave", "a", "b", "c", "d", "e", "f", "g", "h", "i", "j", "k", "l", "m", "n", "o",
     "p", "q", "r", "s", "t", "u", "v", "w", "x", "y", "z", "{", "|", "}", "~" >>

CharCodeTable ==
  [c \in {Ascii[i] : i \in 1..Len(Ascii)} |->
      31 + (CHOOSE i \in 1..Len(Ascii) : Ascii[i] = c)]

\* str::as_bytes on the model's character domain
as_bytes(s) == [i \in 1..Len(s) |-> CharCodeTable[s[i]]]

\* String::from_utf8 on the model's character domain
IsUtf8(bytes) == \A i \in 1..Len(bytes) : bytes[i] >= 32 /\ bytes[i] <= 126

from_utf8(bytes) == [i \in 1..Len(bytes) |-> Ascii[bytes[i] - 31]]

\* Ord for str / [u8]: lexicographic on bytes, a proper prefix is smaller
RECURSIVE BytesLess(_, _)
BytesLess(a, b) ==
  IF b = <<>> THEN FALSE
  ELSE IF a = <<>> THEN TRUE
  ELSE IF a[1] # b[1] THEN a[1] < b[1]
  ELSE BytesLess(Tail(a), Tail(b))

StrLess(a, b) == BytesLess(as_bytes(a), as_bytes(b))

\* the keys of a BTreeMap<String, _> in iteration order: the keys below a
\* median key, the median, the keys above it
RECURSIVE SortedNames(_)
SortedAround(set, m) ==
  SortedNames({y \in set : StrLess(y, m)}) \o <<m>>
    \o SortedNames({y \in set : StrLess(m, y)})

SortedNames(set) ==
  IF set = {} THEN <<>>
  ELSE SortedAround(set, CHOOSE x \in set :
                           Cardinality({y \in set : StrLess(y, x)}) = Cardinality(set) \div 2)

(***************************************************************************)
(* Attribute values, items                                                 *)
(***************************************************************************)

S(s) == [t |-> "S", v |-> s]
N(n) == [t |-> "N", v |-> n]
M(m) == [t |-> "M", v |-> m]
B(b) == [t |-> "B", v |-> b]
BoolV(b) == [t |-> "Bool", v |-> b]
Null == [t |-> "Null", v |-> <<>>]
Ns(s) == [t |-> "Ns", v |-> s]
Bs(s) == [t |-> "Bs", v |-> s]
L(l) == [t |-> "L", v |-> l]
Ss(s) == [t |-> "Ss", v |-> s]

\* Option::None for keys, items and conditions
None == [t |-> "None", v |-> <<>>]

\* Item::new / Item::default
EmptyItem == <<>>

\* Item::get
ItemGet(item, name) == IF name \in DOMAIN item THEN item[name] ELSE None

\* Item::set
ItemSet(item, name, value) ==
  [n \in (DOMAIN item) \cup {name} |-> IF n = name THEN value ELSE item[n]]

\* Item::remove
ItemRemove(item, name) == [n \in (DOMAIN item) \ {name} |-> item[n]]

(***************************************************************************)
(* Binary codec                                                            *)
(***************************************************************************)

TagS == 1
TagN == 2
TagB == 3
TagBool == 4
TagNull == 5
TagM == 6
TagL == 7
TagSs == 8
TagNs == 9
TagBs == 10

\* the byte strings of a BTreeSet<Vec<u8>> in iteration order
RECURSIVE SortedBytes(_)
SortedBytesAround(set, m) ==
  SortedBytes({y \in set : BytesLess(y, m)}) \o <<m>>
    \o SortedBytes({y \in set : BytesLess(m, y)})

SortedBytes(set) ==
  IF set = {} THEN <<>>
  ELSE SortedBytesAround(set, CHOOSE x \in set :
                                Cardinality({y \in set : BytesLess(y, x)})
                                  = Cardinality(set) \div 2)

\* write_len that writes every length in one byte: the variant without the
\* four-byte form
write_len_one_byte(len) == <<len % 256>>

write_len(len) ==
  IF len < 128 THEN <<len>>
  ELSE << 128 + ((len \div 16777216) % 128),
          (len \div 65536) % 256,
          (len \div 256) % 256,
          len % 256 >>

write_bytes(bytes) == write_len(Len(bytes)) \o bytes

\* the loops of write_value, each over the first half of the elements and
\* then over the second half
RECURSIVE write_strings(_)
write_strings(names) ==
  IF names = <<>> THEN <<>>
  ELSE IF Len(names) = 1 THEN write_bytes(as_bytes(names[1]))
  ELSE write_strings(SubSeq(names, 1, Len(names) \div 2))
         \o write_strings(SubSeq(names, Len(names) \div 2 + 1, Len(names)))

RECURSIVE write_byte_strings(_)
write_byte_strings(bs) ==
  IF bs = <<>> THEN <<>>
  ELSE IF Len(bs) = 1 THEN write_bytes(bs[1])
  ELSE write_byte_strings(SubSeq(bs, 1, Len(bs) \div 2))
         \o write_byte_strings(SubSeq(bs, Len(bs) \div 2 + 1, Len(bs)))

RECURSIVE write_value(_)
RECURSIVE write_values(_)
RECURSIVE write_entries(_, _)
write_values(l) ==
  IF l = <<>> THEN <<>>
  ELSE IF Len(l) = 1 THEN write_value(l[1])
  ELSE write_values(SubSeq(l, 1, Len(l) \div 2))
         \o write_values(SubSeq(l, Len(l) \div 2 + 1, Len(l)))

write_entries(m, names) ==
  IF names = <<>> THEN <<>>
  ELSE IF Len(names) = 1 THEN write_bytes(as_bytes(names[1])) \o write_value(m[names[1]])
  ELSE write_entries(m, SubSeq(names, 1, Len(names) \div 2))
         \o write_entries(m, SubSeq(names, Len(names) \div 2 + 1, Len(names)))

write_value(value) ==
  CASE value.t = "S" -> <<TagS>> \o write_bytes(as_bytes(value.v))
    [] value.t = "N" -> <<TagN>> \o write_bytes(as_bytes(value.v))
    [] value.t = "B" -> <<TagB>> \o write_bytes(value.v)
    [] value.t = "Bool" -> <<TagBool, IF value.v THEN 1 ELSE 0>>
    [] value.t = "Null" -> <<TagNull>>
    [] value.t = "M" -> <<TagM>> \o write_len(Cardinality(DOMAIN value.v))
                         \o write_entries(value.v, SortedNames(DOMAIN value.v))
    [] value.t = "L" -> <<TagL>> \o write_len(Len(value.v)) \o write_values(value.v)
    [] value.t = "Ss" -> <<TagSs>> \o write_len(Cardinality(value.v))
                          \o write_strings(SortedNames(value.v))
    [] value.t = "Ns" -> <<TagNs>> \o write_len(Cardinality(value.v))
                          \o write_strings(SortedNames(value.v))
    [] value.t = "Bs" -> <<TagBs>> \o write_len(Cardinality(value.v))
                          \o write_byte_strings(SortedBytes(value.v))

encode(value) == write_value(value)

\* decoder results: [ok, val, pos] with pos the next position (1-based)
DecErr(e) == [ok |-> FALSE, val |-> e, pos |-> 0]
DecOk(v, p) == [ok |-> TRUE, val |-> v, pos |-> p]

read_u8(data, pos) ==
  IF pos > Len(data) THEN DecErr("UnexpectedEof") ELSE DecOk(data[pos], pos + 1)

read_len_long(data, pos, first) ==
  IF ~first.ok THEN first
  ELSE IF first.val < 128 THEN first
  ELSE IF pos + 3 > Len(data) THEN DecErr("UnexpectedEof")
  ELSE DecOk((first.val % 128) * 16777216 + data[pos + 1] * 65536
               + data[pos + 2] * 256 + data[pos + 3], pos + 4)

read_len(data, pos) == read_len_long(data, pos, read_u8(data, pos))

read_bytes_take(data, l) ==
  IF ~l.ok THEN l
  ELSE IF (l.pos - 1) + l.val > Len(data) THEN DecErr("UnexpectedEof")
  ELSE DecOk(SubSeq(data, l.pos, l.pos + l.val - 1), l.pos + l.val)

read_bytes(data, pos) == read_bytes_take(data, read_len(data, pos))

read_string_utf8(b) ==
  IF ~b.ok THEN b
  ELSE IF ~IsUtf8(b.val) THEN DecErr("InvalidUtf8")
  ELSE DecOk(from_utf8(b.val), b.pos)

read_string(data, pos) == read_string_utf8(read_bytes(data, pos))

RECURSIVE read_value(_, _)
RECURSIVE read_items(_, _, _, _)

\* one entry of a map: a name and a value
read_entry_pair(k, v) ==
  IF ~v.ok THEN v ELSE DecOk([k |-> k.val, v |-> v.val], v.pos)

read_entry_value(data, k) ==
  IF ~k.ok THEN k ELSE read_entry_pair(k, read_value(data, k.pos))

read_entry(data, pos) == read_entry_value(data, read_string(data, pos))

\* one pass of a loop of read_value
read_item(data, pos, kind) ==
  CASE kind = "value" -> read_value(data, pos)
    [] kind = "string" -> read_string(data, pos)
    [] kind = "bytes" -> read_bytes(data, pos)
    [] kind = "entry" -> read_entry(data, pos)

read_items_one(r) == IF r.ok THEN DecOk(<<r.val>>, r.pos) ELSE r

read_items_join(left, right) ==
  IF ~right.ok THEN right ELSE DecOk(left.val \o right.val, right.pos)

read_items_right(data, n, kind, left) ==
  IF ~left.ok THEN left
  ELSE read_items_join(left, read_items(data, left.pos, n, kind))

\* n passes of a loop of read_value from pos on, the first error ending it:
\* the first half of the passes, then the second half from where the first
\* half ended
read_items(data, pos, n, kind) ==
  IF n = 0 THEN DecOk(<<>>, pos)
  ELSE IF n = 1 THEN read_items_one(read_item(data, pos, kind))
  ELSE read_items_right(data, n - (n \div 2), kind, read_items(data, pos, n \div 2, kind))

\* BTreeMap::insert of the entries in the order read: the last value of a name
\* stays
LastOf(es, name) ==
  CHOOSE i \in {j \in 1..Len(es) : es[j].k = name} :
    \A j \in {j \in 1..Len(es) : es[j].k = name} : j <= i

MapOfEntries(es) ==
  [name \in {es[i].k : i \in 1..Len(es)} |-> es[LastOf(es, name)].v]

read_entries_collect(r) == IF r.ok THEN DecOk(M(MapOfEntries(r.val)), r.pos) ELSE r

read_entries(data, pos, n) == read_entries_collect(read_items(data, pos, n, "entry"))

read_list_collect(r) == IF r.ok THEN DecOk(L(r.val), r.pos) ELSE r

read_list(data, pos, n) == read_list_collect(read_items(data, pos, n, "value"))

read_set_collect(r, t) ==
  IF r.ok THEN DecOk([t |-> t, v |-> {r.val[i] : i \in 1..Len(r.val)}], r.pos) ELSE r

read_set(data, pos, n, t) ==
  read_set_collect(read_items(data, pos, n, IF t = "Bs" THEN "bytes" ELSE "string"), t)

read_value_string(s, t) == IF s.ok THEN DecOk([t |-> t, v |-> s.val], s.pos) ELSE s

read_value_map(data, l) == IF l.ok THEN read_entries(data, l.pos, l.val) ELSE l

read_value_list(data, l) == IF l.ok THEN read_list(data, l.pos, l.val) ELSE l

read_value_set(data, l, t) == IF l.ok THEN read_set(data, l.pos, l.val, t) ELSE l

read_value_bool(b) ==
  IF ~b.ok THEN b
  ELSE CASE b.val = 0 -> DecOk(BoolV(FALSE), b.pos)
         [] b.val = 1 -> DecOk(BoolV(TRUE), b.pos)
         [] OTHER -> DecErr("InvalidBool")

read_value_tagged(data, tag) ==
  IF ~tag.ok THEN tag
  ELSE CASE tag.val = TagS -> read_value_string(read_string(data, tag.pos), "S")
         [] tag.val = TagN -> read_value_string(read_string(data, tag.pos), "N")
         [] tag.val = TagB -> read_value_string(read_bytes(data, tag.pos), "B")
         [] tag.val = TagBool -> read_value_bool(read_u8(data, tag.pos))
         [] tag.val = TagNull -> DecOk(Null, tag.pos)
         [] tag.val = TagM -> read_value_map(data, read_len(data, tag.pos))
         [] tag.val = TagL -> read_value_list(data, read_len(data, tag.pos))
         [] tag.val = TagSs -> read_value_set(data, read_len(data, tag.pos), "Ss")
         [] tag.val = TagNs -> read_value_set(data, read_len(data, tag.pos), "Ns")
         [] tag.val = TagBs -> read_value_set(data, read_len(data, tag.pos), "Bs")
         [] OTHER -> DecErr("InvalidTypeTag")

read_value(data, pos) == read_value_tagged(data, read_u8(data, pos))

decode(data) == read_value(data, 1)

(***************************************************************************)
(* Numbers held as decimal strings                                         *)
(***************************************************************************)

Digits == <<"0", "1", "2", "3", "4", "5", "6", "7", "8", "9">>

IsDigit(c) == \E i \in 1..10 : Digits[i] = c

DigitVal(c) == (CHOOSE i \in 1..10 : Digits[i] = c) - 1

RECURSIVE DigitsVal(_, _)
DigitsVal(s, acc) ==
  IF s = <<>> THEN acc ELSE DigitsVal(Tail(s), acc * 10 + DigitVal(s[1]))

\* str::parse::<i64>: an optional sign, then one or more digits.  The numbers of
\* the model have at most nine digits, far inside the i64 range
ParseI64_body(body, neg) ==
  IF body = <<>> \/ Len(body) > 9 \/ \E i \in 1..Len(body) : ~IsDigit(body[i])
  THEN [ok |-> FALSE, val |-> 0]
  ELSE [ok |-> TRUE, val |-> IF neg THEN 0 - DigitsVal(body, 0) ELSE DigitsVal(body, 0)]

ParseI64(s) ==
  ParseI64_body(IF s # <<>> /\ s[1] \in {"-", "+"} THEN Tail(s) ELSE s,
                s # <<>> /\ s[1] = "-")

RECURSIVE Pow10(_)
Pow10(k) == IF k = 0 THEN 1 ELSE 10 * Pow10(k - 1)

\* str::parse::<f64> on plain decimals (sign, digits, optional fraction): the
\* value num / 10^scale; exponents, inf and nan are outside the model's inputs
ParseF64_digits(body, neg, d) ==
  [ok |-> TRUE,
   num |-> IF neg THEN 0 - DigitsVal(SubSeq(body, 1, d - 1) \o SubSeq(body, d + 1, Len(body)), 0)
           ELSE DigitsVal(SubSeq(body, 1, d - 1) \o SubSeq(body, d + 1, Len(body)), 0),
   scale |-> IF d > Len(body) THEN 0 ELSE Len(body) - d]

ParseF64_body(body, neg, dots) ==
  IF body = <<>> \/ Cardinality(dots) > 1
     \/ (\E i \in 1..Len(body) : body[i] # "." /\ ~IsDigit(body[i]))
     \/ body = <<".">>
  THEN [ok |-> FALSE, num |-> 0, scale |-> 0]
  ELSE ParseF64_digits(body, neg, IF dots = {} THEN Len(body) + 1 ELSE CHOOSE i \in dots : TRUE)

ParseF64_signed(body, neg) == ParseF64_body(body, neg, {i \in 1..Len(body) : body[i] = "."})

ParseF64(s) ==
  ParseF64_signed(IF s # <<>> /\ s[1] \in {"-", "+"} THEN Tail(s) ELSE s,
                  s # <<>> /\ s[1] = "-")

\* Ordering: "Less" | "Equal" | "Greater"
CmpInt(x, y) == IF x < y THEN "Less" ELSE IF x > y THEN "Greater" ELSE "Equal"

CmpStr(a, b) == IF a = b THEN "Equal" ELSE IF StrLess(a, b) THEN "Less" ELSE "Greater"

compare_numeric_strings_f64(a, b, fx, fy) ==
  IF fx.ok /\ fy.ok
  THEN CmpInt(fx.num * Pow10(fy.scale), fy.num * Pow10(fx.scale))
  ELSE CmpStr(a, b)

compare_numeric_strings_i64(a, b, x, y) ==
  IF x.ok /\ y.ok THEN CmpInt(x.val, y.val)
  ELSE compare_numeric_strings_f64(a, b, ParseF64(a), ParseF64(b))

compare_numeric_strings(a, b) == compare_numeric_strings_i64(a, b, ParseI64(a), ParseI64(b))

numbers_equal(a, b) == compare_numeric_strings(a, b) = "Equal"

\* compare_values: Ordering, or "TypeMismatch"
compare_values(a, b) ==
  CASE a.t = "S" /\ b.t = "S" -> CmpStr(a.v, b.v)
    [] a.t = "N" /\ b.t = "N" -> compare_numeric_strings(a.v, b.v)
    [] OTHER -> "TypeMismatch"

RECURSIVE NatToStr(_)
NatToStr(n) == IF n < 10 THEN <<Digits[n + 1]>> ELSE NatToStr(n \div 10) \o <<Digits[(n % 10) + 1]>>

\* i64::to_string
IntToStr(n) == IF n < 0 THEN <<"-">> \o NatToStr(0 - n) ELSE NatToStr(n)

\* add_numeric_strings: [ok, val]; the float path is exact decimal addition

RECURSIVE StripZeros(_, _)
StripZeros(num, scale) ==
  IF scale > 0 /\ num % 10 = 0 THEN StripZeros(num \div 10, scale - 1)
  ELSE [num |-> num, scale |-> scale]

RECURSIVE PadLeft(_, _)
PadLeft(s, n) == IF Len(s) >= n THEN s ELSE PadLeft(<<"0">> \o s, n)

FormatDec_point(r, ds, sgn) ==
  IF r.scale = 0 THEN sgn \o ds
  ELSE sgn \o SubSeq(ds, 1, Len(ds) - r.scale) \o <<".">>
           \o SubSeq(ds, Len(ds) - r.scale + 1, Len(ds))

FormatDec_digits(r) ==
  FormatDec_point(r, PadLeft(NatToStr(IF r.num < 0 THEN 0 - r.num ELSE r.num), r.scale + 1),
                  IF r.num < 0 THEN <<"-">> ELSE <<>>)

FormatDec(num, scale) == FormatDec_digits(StripZeros(num, scale))

add_numeric_strings_sum(fx, fy, sc) ==
  [ok |-> TRUE,
   val |-> FormatDec(fx.num * Pow10(sc - fx.scale) + fy.num * Pow10(sc - fy.scale), sc)]

add_numeric_strings_f64(fx, fy) ==
  IF ~fx.ok \/ ~fy.ok THEN [ok |-> FALSE, val |-> <<>>]
  ELSE add_numeric_strings_sum(fx, fy, IF fx.scale > fy.scale THEN fx.scale ELSE fy.scale)

add_numeric_strings_i64(a, b, x, y) ==
  IF x.ok /\ y.ok THEN [ok |-> TRUE, val |-> IntToStr(x.val + y.val)]
  ELSE add_numeric_strings_f64(ParseF64(a), ParseF64(b))

add_numeric_strings(a, b) == add_numeric_strings_i64(a, b, ParseI64(a), ParseI64(b))

(***************************************************************************)
(* Keys and schemas                                                        *)
(***************************************************************************)

ALPHABET ==
  << "A", "B", "C", "D", "E", "F", "G", "H", "I", "J", "K", "L", "M", "N", "O", "P",
     "Q", "R", "S", "T", "U", "V", "W", "X", "Y", "Z", "a", "b", "c", "d", "e", "f",
     "g", "h", "i", "j", "k", "l", "m", "n", "o", "p", "q", "r", "s", "t", "u", "v",
     "w", "x", "y", "z", "0", "1", "2", "3", "4", "5", "6", "7", "8", "9", "+", "/" >>

RECURSIVE base64_encode(_)
base64_encode_chunk(data, n, b0, b1, b2) ==
  << ALPHABET[(b0 \div 4) + 1],
     ALPHABET[((b0 % 4) * 16 + (b1 \div 16)) + 1],
     IF n > 1 THEN ALPHABET[((b1 % 16) * 4 + (b2 \div 64)) + 1] ELSE "=",
     IF n > 2 THEN ALPHABET[(b2 % 64) + 1] ELSE "=" >>
  \o base64_encode(SubSeq(data, n + 1, Len(data)))

base64_encode(data) ==
  IF data = <<>> THEN <<>>
  ELSE base64_encode_chunk(data, IF Len(data) < 3 THEN Len(data) ELSE 3, data[1],
                           IF Len(data) > 1 THEN data[2] ELSE 0,
                           IF Len(data) > 2 THEN data[3] ELSE 0)

\* escape_key_chars that escapes nothing: the variant under which a separator
\* inside a value reads as the separator between components
escape_key_chars_verbatim(s) == s

RECURSIVE escape_key_chars(_)
escape_key_chars(s) ==
  IF s = <<>> THEN <<>>
  ELSE (IF s[1] \in {"#", ":", "\\"} THEN <<"\\", s[1]>> ELSE <<s[1]>>)
       \o escape_key_chars(Tail(s))

encode_key_component(key) ==
  CASE key.t = "S" -> <<"S", ":">> \o escape_key_chars(key.v)
    [] key.t = "N" -> <<"N", ":">> \o key.v
    [] key.t = "B" -> <<"B", ":">> \o base64_encode(key.v)

\* PrimaryKey: [pk, sk] of key values, sk = None for a simple key
PrimaryKey(pk, sk) == [pk |-> pk, sk |-> sk]

to_storage_key(key) ==
  IF key.sk # None
  THEN encode_key_component(key.pk) \o <<"#">> \o encode_key_component(key.sk)
  ELSE encode_key_component(key.pk)

\* KeyAttribute / KeySchema; a schema without sort key has sort_key = NoAttr
KeyAttribute(name, key_type) == [name |-> name, key_type |-> key_type]
NoAttr == [name |-> <<>>, key_type |-> "None"]
KeySchema(pk, sk) == [partition_key |-> pk, sort_key |-> sk]

\* extract_key_value / KeyValue::from_attribute_with_type: None on a type mismatch
extract_key_value(attr, expected_type) ==
  IF attr.t = expected_type /\ expected_type \in {"S", "N", "B"} THEN attr ELSE None

\* Item::extract_key: a PrimaryKey or None
extract_key_composite(pk, sk) == IF sk = None THEN None ELSE PrimaryKey(pk, sk)

extract_key_sort(schema, pk, sk_attr) ==
  IF sk_attr = None THEN None
  ELSE extract_key_composite(pk, extract_key_value(sk_attr, schema.sort_key.key_type))

extract_key_partition(item, schema, pk) ==
  IF pk = None THEN None
  ELSE IF schema.sort_key # NoAttr
       THEN extract_key_sort(schema, pk, ItemGet(item, schema.sort_key.name))
       ELSE PrimaryKey(pk, None)

extract_key_attr(item, schema, pk_attr) ==
  IF pk_attr = None THEN None
  ELSE extract_key_partition(item, schema,
                             extract_key_value(pk_attr, schema.partition_key.key_type))

extract_key(item, schema) ==
  extract_key_attr(item, schema, ItemGet(item, schema.partition_key.name))

\* validate_key_attribute (required = true): "Ok" | "MissingAttribute" | "TypeMismatch"
validate_key_attribute(item, name, expected_type) ==
  IF name \notin DOMAIN item THEN "MissingAttribute"
  ELSE IF item[name].t = expected_type THEN "Ok" ELSE "TypeMismatch"

\* Item::validate_key
validate_key_sort(item, schema, p) ==
  IF p # "Ok" THEN p
  ELSE IF schema.sort_key # NoAttr
       THEN validate_key_attribute(item, schema.sort_key.name, schema.sort_key.key_type)
       ELSE "Ok"

validate_key(item, schema) ==
  validate_key_sort(item, schema,
                    validate_key_attribute(item, schema.partition_key.name,
                                           schema.partition_key.key_type))

(***************************************************************************)
(* Attribute paths and condition expressions                               *)
(***************************************************************************)

Key(name) == [k |-> "Key", name |-> name, idx |-> 0]
Index(i)  == [k |-> "Index", name |-> <<>>, idx |-> i]

\* AttributePath::new
attr(name) == <<Key(name)>>

RECURSIVE resolve_from(_, _)
resolve_from(current, segments) ==
  IF segments = <<>> THEN current
  ELSE LET seg == segments[1] IN
       CASE seg.k = "Key" /\ current.t = "M" ->
              IF seg.name \in DOMAIN current.v
              THEN resolve_from(current.v[seg.name], Tail(segments)) ELSE None
         [] seg.k = "Index" /\ current.t = "L" ->
              IF seg.idx + 1 <= Len(current.v)
              THEN resolve_from(current.v[seg.idx + 1], Tail(segments)) ELSE None
         [] OTHER -> None

\* AttributePath::resolve: the value at the path, or None
resolve(path, item) ==
  IF path = <<>> THEN None
  ELSE IF path[1].k # "Key" THEN None
  ELSE IF path[1].name \notin DOMAIN item THEN None
  ELSE resolve_from(item[path[1].name], Tail(path))

Compare(path, op, value) == [t |-> "Compare", path |-> path, op |-> op, value |-> value]
AttributeExists(path)    == [t |-> "AttributeExists", path |-> path]
AttributeNotExists(path) == [t |-> "AttributeNotExists", path |-> path]
And(l, r) == [t |-> "And", left |-> l, right |-> r]
Or(l, r)  == [t |-> "Or", left |-> l, right |-> r]
Not(c)    == [t |-> "Not", inner |-> c]

RECURSIVE values_equal(_, _)
values_equal(a, b) ==
  CASE a.t = "S" /\ b.t = "S" -> a.v = b.v
    [] a.t = "N" /\ b.t = "N" -> numbers_equal(a.v, b.v)
    [] a.t = "M" /\ b.t = "M" ->
         /\ Cardinality(DOMAIN a.v) = Cardinality(DOMAIN b.v)
         /\ \A k \in DOMAIN a.v : k \in DOMAIN b.v /\ values_equal(a.v[k], b.v[k])
    [] a.t = "L" /\ b.t = "L" ->
         /\ Len(a.v) = Len(b.v)
         /\ \A i \in 1..Len(a.v) : values_equal(a.v[i], b.v[i])
    [] a.t = "Ss" /\ b.t = "Ss" -> a.v = b.v
    [] OTHER -> FALSE

Bool(b) == IF b THEN "true" ELSE "false"

\* eval_compare: "true" | "false" | "TypeMismatch"
eval_compare_ordering(op, ord) ==
  IF ord = "TypeMismatch" THEN "TypeMismatch"
  ELSE CASE op = "Lt" -> Bool(ord = "Less")
         [] op = "Le" -> Bool(ord # "Greater")
         [] op = "Gt" -> Bool(ord = "Greater")
         [] op = "Ge" -> Bool(ord # "Less")

\* eval_compare that takes Eq and Ne through compare_values: the variant under
\* which comparing values of different types for equality is an error
eval_compare_through_ordering(a, op, value) ==
  CASE op = "Eq" /\ compare_values(a, value) # "TypeMismatch" -> Bool(values_equal(a, value))
    [] op = "Ne" /\ compare_values(a, value) # "TypeMismatch" -> Bool(~values_equal(a, value))
    [] OTHER -> eval_compare_ordering(op, compare_values(a, value))

eval_compare(a, op, value) ==
  CASE op = "Eq" -> Bool(values_equal(a, value))
    [] op = "Ne" -> Bool(~values_equal(a, value))
    [] OTHER -> eval_compare_ordering(op, compare_values(a, value))

\* evaluate: "true" | "false" | "TypeMismatch"
RECURSIVE evaluate(_, _)
\* evaluate_compare that gives false for every operator on an absent
\* attribute: the variant without the Ne case
evaluate_compare_absent_false(condition, a) ==
  IF a # None THEN eval_compare(a, condition.op, condition.value)
  ELSE "false"

evaluate_compare(condition, a) ==
  IF a # None THEN eval_compare(a, condition.op, condition.value)
  ELSE Bool(condition.op = "Ne")

evaluate_and(condition, item, l) ==
  IF l = "TypeMismatch" THEN l
  ELSE IF l = "false" THEN "false"
  ELSE evaluate(condition.right, item)

\* evaluate_or that evaluates the right operand whatever the left one gave:
\* the variant without the short circuit
evaluate_or_both(condition, item, l) ==
  IF l = "TypeMismatch" THEN l
  ELSE IF evaluate(condition.right, item) = "TypeMismatch" THEN "TypeMismatch"
  ELSE Bool(l = "true" \/ evaluate(condition.right, item) = "true")

evaluate_or(condition, item, l) ==
  IF l = "TypeMismatch" THEN l
  ELSE IF l = "true" THEN "true"
  ELSE evaluate(condition.right, item)

evaluate_not(r) == IF r = "TypeMismatch" THEN r ELSE Bool(r = "false")

evaluate(condition, item) ==
  CASE condition.t = "Compare" -> evaluate_compare(condition, resolve(condition.path, item))
    [] condition.t = "AttributeExists" -> Bool(resolve(condition.path, item) # None)
    [] condition.t = "AttributeNotExists" -> Bool(resolve(condition.path, item) = None)
    [] condition.t = "And" -> evaluate_and(condition, item, evaluate(condition.left, item))
    [] condition.t = "Or" -> evaluate_or(condition, item, evaluate(condition.left, item))
    [] condition.t = "Not" -> evaluate_not(evaluate(condition.inner, item))

(***************************************************************************)
(* Update expressions                                                      *)
(***************************************************************************)

Set(path, value)            == [a |-> "Set", path |-> path, value |-> value]
SetIfNotExists(path, value) == [a |-> "SetIfNotExists", path |-> path, value |-> value]
Remove(path)                == [a |-> "Remove", path |-> path, value |-> None]
Add(path, value)            == [a |-> "Add", path |-> path, value |-> value]
\* UpdateAction::Delete
DeleteFrom(path, value)     == [a |-> "Delete", path |-> path, value |-> value]

\* results of the update executor: [ok, item] with item the error kind on failure
UpdOk(item) == [ok |-> TRUE, item |-> item]
UpdErr(e)   == [ok |-> FALSE, item |-> e]

\* Vec: list[idx] = value, with idx 0-based
ListSet(l, idx, value) == [i \in 1..Len(l) |-> IF i = idx + 1 THEN value ELSE l[i]]

\* Vec::remove
ListRemove(l, idx) == SubSeq(l, 1, idx) \o SubSeq(l, idx + 2, Len(l))

\* set_at_path: [ok, item] with item the new value
RECURSIVE set_at_path(_, _, _)
set_at_path_child(m, name, upd) ==
  IF upd.ok THEN UpdOk(M(ItemSet(m, name, upd.item))) ELSE upd

set_at_path_element(l, idx, upd) ==
  IF upd.ok THEN UpdOk(L(ListSet(l, idx, upd.item))) ELSE upd

\* set_at_path_index that appends at every index past the end: the variant
\* under which no list index is out of bounds
set_at_path_index_append_past_end(l, idx, segments, value) ==
  IF Len(segments) = 1
  THEN IF idx < Len(l) THEN UpdOk(L(ListSet(l, idx, value)))
       ELSE UpdOk(L(Append(l, value)))
  ELSE IF idx >= Len(l) THEN UpdErr("UpdateError")
  ELSE set_at_path_element(l, idx, set_at_path(l[idx + 1], Tail(segments), value))

set_at_path_index(l, idx, segments, value) ==
  IF Len(segments) = 1
  THEN IF idx < Len(l) THEN UpdOk(L(ListSet(l, idx, value)))
       ELSE IF idx = Len(l) THEN UpdOk(L(Append(l, value)))
       ELSE UpdErr("UpdateError")
  ELSE IF idx >= Len(l) THEN UpdErr("UpdateError")
  ELSE set_at_path_element(l, idx, set_at_path(l[idx + 1], Tail(segments), value))

set_at_path(current, segments, value) ==
  IF segments = <<>> THEN UpdOk(value)
  ELSE LET seg == segments[1] IN
       CASE seg.k = "Key" /\ current.t = "M" ->
              IF Len(segments) = 1 THEN UpdOk(M(ItemSet(current.v, seg.name, value)))
              ELSE set_at_path_child(current.v, seg.name,
                     set_at_path(IF seg.name \in DOMAIN current.v
                                 THEN current.v[seg.name] ELSE M(<<>>),
                                 Tail(segments), value))
         [] seg.k = "Key" /\ current.t # "M" ->
              IF Len(segments) = 1 THEN UpdOk(M(ItemSet(<<>>, seg.name, value)))
              ELSE set_at_path_child(<<>>, seg.name,
                                     set_at_path(M(<<>>), Tail(segments), value))
         [] seg.k = "Index" /\ current.t = "L" ->
              set_at_path_index(current.v, seg.idx, segments, value)
         [] OTHER -> UpdErr("UpdateError")

set_nested_root(item, root, upd) ==
  IF upd.ok THEN UpdOk(ItemSet(item, root, upd.item)) ELSE upd

set_nested(item, segments, value) ==
  IF segments[1].k # "Key" THEN UpdErr("UpdateError")
  ELSE LET root == segments[1].name IN
       IF Len(segments) = 1 THEN UpdOk(ItemSet(item, root, value))
       ELSE set_nested_root(item, root,
                            set_at_path(IF root \in DOMAIN item THEN item[root] ELSE M(<<>>),
                                        Tail(segments), value))

set_path(item, path, value) ==
  IF path = <<>> THEN UpdErr("InvalidKey")
  ELSE IF Len(path) = 1 /\ path[1].k = "Key" THEN UpdOk(ItemSet(item, path[1].name, value))
  ELSE set_nested(item, path, value)

RECURSIVE remove_at_path(_, _)
remove_at_path(current, segments) ==
  LET seg == segments[1] IN
  IF seg.k = "Key" /\ current.t = "M"
  THEN IF Len(segments) = 1 THEN M(ItemRemove(current.v, seg.name))
       ELSE IF seg.name \in DOMAIN current.v
            THEN M(ItemSet(current.v, seg.name,
                           remove_at_path(current.v[seg.name], Tail(segments))))
            ELSE current
  ELSE IF seg.k = "Index" /\ current.t = "L" /\ seg.idx < Len(current.v)
  THEN IF Len(segments) = 1 THEN L(ListRemove(current.v, seg.idx))
       ELSE L(ListSet(current.v, seg.idx,
                      remove_at_path(current.v[seg.idx + 1], Tail(segments))))
  ELSE current

remove_path(item, path) ==
  IF path = <<>> THEN UpdOk(item)
  ELSE IF Len(path) = 1 /\ path[1].k = "Key" THEN UpdOk(ItemRemove(item, path[1].name))
  ELSE IF path[1].k # "Key" THEN UpdOk(item)
  ELSE LET root == path[1].name IN
       IF root \in DOMAIN item
       THEN UpdOk(ItemSet(item, root, remove_at_path(item[root], Tail(path))))
       ELSE UpdOk(item)

add_to_path_sum(item, path, r) ==
  IF r.ok THEN set_path(item, path, N(r.val)) ELSE UpdErr("UpdateError")

add_to_path_current(item, path, value, current) ==
  CASE current.t = "N" /\ value.t = "N" ->
         add_to_path_sum(item, path, add_numeric_strings(current.v, value.v))
    [] current = None /\ value.t = "N" -> set_path(item, path, value)
    [] current.t = "Ss" /\ value.t = "Ss" -> set_path(item, path, Ss(current.v \cup value.v))
    [] current = None /\ value.t = "Ss" -> set_path(item, path, value)
    [] OTHER -> UpdErr("UpdateError")

add_to_path(item, path, value) ==
  add_to_path_current(item, path, value, resolve(path, item))

\* UpdateExecutor::delete_from_path
delete_from_path_current(item, path, value, current) ==
  CASE current.t = "Ss" /\ value.t = "Ss" -> set_path(item, path, Ss(current.v \ value.v))
    [] current = None -> UpdOk(item)
    [] OTHER -> UpdErr("UpdateError")

delete_from_path(item, path, value) ==
  delete_from_path_current(item, path, value, resolve(path, item))

apply_action(item, action) ==
  CASE action.a = "Set" -> set_path(item, action.path, action.value)
    [] action.a = "SetIfNotExists" ->
         IF resolve(action.path, item) = None
         THEN set_path(item, action.path, action.value) ELSE UpdOk(item)
    [] action.a = "Remove" -> remove_path(item, action.path)
    [] action.a = "Add" -> add_to_path(item, action.path, action.value)
    [] action.a = "Delete" -> delete_from_path(item, action.path, action.value)

\* execute that applies the actions from the last to the first: the variant
\* under which an action sees the result of the later actions
RECURSIVE execute_last_first(_, _)
execute_last_first_rest(expression, r) ==
  IF r.ok THEN execute_last_first(r.item, SubSeq(expression, 1, Len(expression) - 1)) ELSE r

execute_last_first(item, expression) ==
  IF expression = <<>> THEN UpdOk(item)
  ELSE execute_last_first_rest(expression, apply_action(item, expression[Len(expression)]))

\* UpdateExecutor::execute: the actions in list order, stopping at the first error
RECURSIVE execute(_, _)
execute_rest(expression, r) == IF r.ok THEN execute(r.item, Tail(expression)) ELSE r

execute(item, expression) ==
  IF expression = <<>> THEN UpdOk(item)
  ELSE execute_rest(expression, apply_action(item, expression[1]))

(***************************************************************************)
(* HashMap helpers                                                         *)
(***************************************************************************)

\* HashMap::insert
MapPut(m, k, v) == [x \in (DOMAIN m) \cup {k} |-> IF x = k THEN v ELSE m[x]]

\* HashMap::remove
MapDel(m, k) == [x \in (DOMAIN m) \ {k} |-> m[x]]

\* the orders in which a HashMap may yield the keys in D
Orders(D) ==
  {o \in [1..Cardinality(D) -> D] : \A i, j \in 1..Cardinality(D) : i # j => o[i] # o[j]}

(***************************************************************************)
(* Query executor                                                          *)
(***************************************************************************)

KeyCondition(pk, sort_key) == [partition_key |-> pk, sort_key |-> sort_key]
SortKeyOp(op, v, high) == [t |-> op, v |-> v, high |-> high]

\* query::condition::compare_numeric_strings and the N arm of
\* query::executor::compare_key_values: f64 comparison, unparsable is NaN
compare_as_f64_parsed(x, y) ==
  IF x.ok /\ y.ok THEN CmpInt(x.num * Pow10(y.scale), y.num * Pow10(x.scale))
  ELSE "Equal"

compare_as_f64(a, b) == compare_as_f64_parsed(ParseF64(a), ParseF64(b))

compare_key_values(a, b) ==
  CASE a.t = "S" /\ b.t = "S" -> CmpStr(a.v, b.v)
    [] a.t = "N" /\ b.t = "N" -> compare_as_f64(a.v, b.v)
    [] a.t = "B" /\ b.t = "B" -> IF a.v = b.v THEN "Equal"
                                 ELSE IF BytesLess(a.v, b.v) THEN "Less" ELSE "Greater"
    [] OTHER -> CmpStr(<<a.t>>, <<b.t>>)

starts_with(v, p) == Len(p) <= Len(v) /\ SubSeq(v, 1, Len(p)) = p

key_begins_with(value, prefix) ==
  /\ value.t = prefix.t
  /\ value.t \in {"S", "B"}
  /\ starts_with(value.v, prefix.v)

\* SortKeyOp::matches
sk_matches_ordering(t, ord) ==
  CASE t = "Eq" -> ord = "Equal"
    [] t = "Lt" -> ord = "Less"
    [] t = "Le" -> ord # "Greater"
    [] t = "Gt" -> ord = "Greater"
    [] t = "Ge" -> ord # "Less"

sk_matches(op, value) ==
  CASE op.t = "Between" -> /\ compare_key_values(value, op.v) # "Less"
                           /\ compare_key_values(value, op.high) # "Greater"
    [] op.t = "BeginsWith" -> key_begins_with(value, op.v)
    [] OTHER -> sk_matches_ordering(op.t, compare_key_values(value, op.v))

\* SortableKey::new
SortableKey(pk) == [sk |-> pk.sk, unique_suffix |-> to_storage_key(pk)]

\* Ord for SortableKey that orders by the storage-key string alone: the
\* variant under which N sort keys come out in lexicographic order
SortableCmp_by_storage_key(a, b) == CmpStr(a.unique_suffix, b.unique_suffix)

\* Ord for SortableKey
SortableCmp_sk(a, b, c) ==
  IF c = "Equal" THEN CmpStr(a.unique_suffix, b.unique_suffix) ELSE c

SortableCmp(a, b) ==
  CASE a.sk # None /\ b.sk # None -> SortableCmp_sk(a, b, compare_key_values(a.sk, b.sk))
    [] a.sk # None /\ b.sk = None -> "Greater"
    [] a.sk = None /\ b.sk # None -> "Less"
    [] OTHER -> CmpStr(a.unique_suffix, b.unique_suffix)

\* BTreeMap<SortableKey, Item>::insert on the map held as a sorted sequence of
\* [key, item]: an entry whose key compares Equal has its item replaced
RECURSIVE BTreeInsert(_, _, _)
BTreeInsert_at(m, key, item, c) ==
  CASE c = "Less"  -> <<[key |-> key, item |-> item]>> \o m
    [] c = "Equal" -> <<[key |-> m[1].key, item |-> item]>> \o Tail(m)
    [] OTHER       -> <<m[1]>> \o BTreeInsert(Tail(m), key, item)

BTreeInsert(m, key, item) ==
  IF m = <<>> THEN <<[key |-> key, item |-> item]>>
  ELSE BTreeInsert_at(m, key, item, SortableCmp(key, m[1].key))

\* the loop of QueryExecutor::execute over the pairs [pk, item], in their order
RECURSIVE Matching(_, _, _)
Matching(items, condition, acc) ==
  IF items = <<>> THEN acc
  ELSE Matching(Tail(items), condition,
                IF /\ items[1].pk.pk = condition.partition_key
                   /\ condition.sort_key # None =>
                        (/\ items[1].pk.sk # None
                         /\ sk_matches(condition.sort_key, items[1].pk.sk))
                THEN BTreeInsert(acc, SortableKey(items[1].pk), items[1].item)
                ELSE acc)

Reverse(s) == [i \in 1..Len(s) |-> s[Len(s) + 1 - i]]

Take(s, n) == SubSeq(s, 1, IF n < Len(s) THEN n ELSE Len(s))

QueryOptions(limit, scan_forward) == [limit |-> limit, scan_forward |-> scan_forward]
NoLimit == -1

\* QueryExecutor::execute: [items, scanned_count, count]
\* query_execute_result that reports the returned items as scanned: the
\* variant under which the items that were inspected and dropped are not counted
query_execute_result_scanned_returned(items, out) ==
  [items |-> out, scanned_count |-> Len(out), count |-> Len(out)]

query_execute_result(items, out) ==
  [items |-> out, scanned_count |-> Len(items), count |-> Len(out)]

query_execute_limit(items, options, ordered) ==
  query_execute_result(items, IF options.limit # NoLimit
                              THEN Take(ordered, options.limit) ELSE ordered)

\* query_execute_values that never reverses: the variant under which
\* scan_forward is ignored
query_execute_values_forward_only(items, options, values) ==
  query_execute_limit(items, options, values)

query_execute_values(items, options, values) ==
  query_execute_limit(items, options,
                      IF options.scan_forward THEN values ELSE Reverse(values))

\* query_execute_matching that cuts the map to the limit before the direction
\* is applied: the variant under which a reverse query with a limit returns
\* the smallest keys
query_execute_matching_limit_first(items, options, matching) ==
  query_execute_values(items, [options EXCEPT !.limit = NoLimit],
                       [i \in 1..(IF options.limit # NoLimit /\ options.limit < Len(matching)
                                  THEN options.limit ELSE Len(matching)) |-> matching[i].item])

query_execute_matching(items, options, matching) ==
  query_execute_values(items, options, [i \in 1..Len(matching) |-> matching[i].item])

query_execute(items, condition, options) ==
  query_execute_matching(items, options, Matching(items, condition, <<>>))

get_sk_value_from_op(op) == op.v

\* QueryExecutor::validate_condition: "Ok" | "TypeMismatch" | "MissingAttribute"
validate_condition(schema, condition) ==
  IF condition.partition_key.t # schema.partition_key.key_type THEN "TypeMismatch"
  ELSE IF condition.sort_key # None
       THEN IF schema.sort_key # NoAttr
            THEN IF get_sk_value_from_op(condition.sort_key).t # schema.sort_key.key_type
                 THEN "TypeMismatch" ELSE "Ok"
            ELSE "MissingAttribute"
       ELSE "Ok"

(***************************************************************************)
(* Projection                                                              *)
(***************************************************************************)

ProjAll == [t |-> "All", attrs |-> {}]
ProjKeysOnly == [t |-> "KeysOnly", attrs |-> {}]
ProjInclude(attrs) == [t |-> "Include", attrs |-> attrs]

\* collect_key_names without the table's key names: the variant under which
\* a projected item keeps the index key only
collect_key_names_index_only(table_schema, index_schema) ==
  {index_schema.partition_key.name}
    \cup (IF index_schema.sort_key # NoAttr THEN {index_schema.sort_key.name} ELSE {})

collect_key_names(table_schema, index_schema) ==
  {table_schema.partition_key.name, index_schema.partition_key.name}
    \cup (IF table_schema.sort_key # NoAttr THEN {table_schema.sort_key.name} ELSE {})
    \cup (IF index_schema.sort_key # NoAttr THEN {index_schema.sort_key.name} ELSE {})

filter_item(item, include) == [n \in (DOMAIN item) \cap include |-> item[n]]

project_item(projection, item, table_schema, index_schema) ==
  CASE projection.t = "All" -> item
    [] projection.t = "KeysOnly" ->
         filter_item(item, collect_key_names(table_schema, index_schema))
    [] projection.t = "Include" ->
         filter_item(item, collect_key_names(table_schema, index_schema) \cup projection.attrs)

(***************************************************************************)
(* Global secondary index                                                  *)
(***************************************************************************)

EmptyMap == <<>>

\* GlobalSecondaryIndex::new; data maps a storage key to [key, item]
GlobalSecondaryIndex(schema, projection, table_schema) ==
  [schema |-> schema, projection |-> projection, table_schema |-> table_schema,
   data |-> EmptyMap, table_key_index |-> EmptyMap]

gsi_extract_index_key(gsi, item) == extract_key(item, gsi.schema)

gsi_make_storage_key(index_key, table_key) ==
  to_storage_key(index_key) \o <<"|">> \o to_storage_key(table_key)

gsi_remove_storage_key(gsi, to_remove) ==
  IF to_remove \in DOMAIN gsi.table_key_index
  THEN [gsi EXCEPT !.table_key_index = MapDel(@, to_remove),
                   !.data = MapDel(@, gsi.table_key_index[to_remove])]
  ELSE gsi

gsi_remove_by_table_key(gsi, table_key) ==
  gsi_remove_storage_key(gsi, to_storage_key(table_key))

gsi_put_entry(g1, table_key, storage_key, projected) ==
  [g1 EXCEPT
     !.table_key_index = MapPut(@, to_storage_key(table_key), storage_key),
     !.data = MapPut(@, storage_key, [key |-> table_key, item |-> projected])]

gsi_put_index_key(g1, table_key, item, index_key) ==
  IF index_key # None
  THEN gsi_put_entry(g1, table_key, gsi_make_storage_key(index_key, table_key),
                     project_item(g1.projection, item, g1.table_schema, g1.schema))
  ELSE g1

gsi_put_removed(g1, table_key, item) ==
  gsi_put_index_key(g1, table_key, item, gsi_extract_index_key(g1, item))

\* gsi_put without remove_by_table_key: the variant that leaves the entry of
\* the former index key in the data map
gsi_put_keep_old(gsi, table_key, item) == gsi_put_removed(gsi, table_key, item)

gsi_put(gsi, table_key, item) ==
  gsi_put_removed(gsi_remove_by_table_key(gsi, table_key), table_key, item)

gsi_delete(gsi, table_key) == gsi_remove_by_table_key(gsi, table_key)

gsi_clear(gsi) == [gsi EXCEPT !.data = EmptyMap, !.table_key_index = EmptyMap]

\* the pairs fed to the executor, in the order `order` in which data.values() yields
RECURSIVE gsi_pairs(_, _)
gsi_pairs_entry(gsi, order, item, index_key) ==
  (IF index_key # None THEN <<[pk |-> index_key, item |-> item]>> ELSE <<>>)
    \o gsi_pairs(gsi, Tail(order))

gsi_pairs(gsi, order) ==
  IF order = <<>> THEN <<>>
  ELSE gsi_pairs_entry(gsi, order, gsi.data[order[1]].item,
                       gsi_extract_index_key(gsi, gsi.data[order[1]].item))

\* GlobalSecondaryIndex::query_with_options: [status, result]
gsi_query_validated(gsi, condition, options, order, v) ==
  IF v # "Ok" THEN [status |-> v, result |-> [items |-> <<>>, scanned_count |-> 0, count |-> 0]]
  ELSE [status |-> "Ok", result |-> query_execute(gsi_pairs(gsi, order), condition, options)]

gsi_query_with_options(gsi, condition, options, order) ==
  gsi_query_validated(gsi, condition, options, order, validate_condition(gsi.schema, condition))

(***************************************************************************)
(* Local secondary index                                                   *)
(***************************************************************************)

LocalSecondaryIndex(sort_key, projection, table_schema) ==
  [sort_key |-> sort_key, projection |-> projection, table_schema |-> table_schema,
   data |-> EmptyMap, table_key_index |-> EmptyMap]

lsi_schema(lsi) == KeySchema(lsi.table_schema.partition_key, lsi.sort_key)

pk_to_string(kv) ==
  CASE kv.t = "S" -> <<"S", ":">> \o kv.v
    [] kv.t = "N" -> <<"N", ":">> \o kv.v
    [] kv.t = "B" -> <<"B", ":">> \o base64_encode(kv.v)

extract_pk_from_item(lsi, item) ==
  IF ItemGet(item, lsi.table_schema.partition_key.name) = None THEN None
  ELSE extract_key_value(ItemGet(item, lsi.table_schema.partition_key.name),
                         lsi.table_schema.partition_key.key_type)

extract_lsi_sort_key(lsi, item) ==
  IF ItemGet(item, lsi.sort_key.name) = None THEN None
  ELSE extract_key_value(ItemGet(item, lsi.sort_key.name), lsi.sort_key.key_type)

lsi_make_storage_key(pk, lsi_sk, table_key) ==
  pk_to_string(pk) \o <<"#">> \o pk_to_string(lsi_sk) \o <<"#">> \o to_storage_key(table_key)

lsi_remove_storage_key(lsi, to_remove) ==
  IF to_remove \in DOMAIN lsi.table_key_index
  THEN [lsi EXCEPT !.table_key_index = MapDel(@, to_remove),
                   !.data = MapDel(@, lsi.table_key_index[to_remove])]
  ELSE lsi

lsi_remove_by_table_key(lsi, table_key) ==
  lsi_remove_storage_key(lsi, to_storage_key(table_key))

lsi_put_entry(l1, table_key, storage_key, projected) ==
  [l1 EXCEPT
     !.table_key_index = MapPut(@, to_storage_key(table_key), storage_key),
     !.data = MapPut(@, storage_key, projected)]

lsi_put_sort_key(l1, table_key, item, lsi_sk) ==
  IF lsi_sk # None
  THEN lsi_put_entry(l1, table_key, lsi_make_storage_key(table_key.pk, lsi_sk, table_key),
                     project_item(l1.projection, item, l1.table_schema, lsi_schema(l1)))
  ELSE l1

lsi_put_removed(l1, table_key, item) ==
  lsi_put_sort_key(l1, table_key, item, extract_lsi_sort_key(l1, item))

lsi_put(lsi, table_key, item) ==
  lsi_put_removed(lsi_remove_by_table_key(lsi, table_key), table_key, item)

lsi_delete(lsi, table_key) == lsi_remove_by_table_key(lsi, table_key)

lsi_clear(lsi) == [lsi EXCEPT !.data = EmptyMap, !.table_key_index = EmptyMap]

RECURSIVE lsi_pairs(_, _)
lsi_pairs_entry(lsi, order, item, pk, sk) ==
  (IF pk # None /\ sk # None
   THEN <<[pk |-> PrimaryKey(pk, sk), item |-> item]>> ELSE <<>>)
    \o lsi_pairs(lsi, Tail(order))

lsi_pairs(lsi, order) ==
  IF order = <<>> THEN <<>>
  ELSE lsi_pairs_entry(lsi, order, lsi.data[order[1]],
                       extract_pk_from_item(lsi, lsi.data[order[1]]),
                       extract_lsi_sort_key(lsi, lsi.data[order[1]]))

\* LocalSecondaryIndex::query_with_options: [status, result]
lsi_query_validated(lsi, condition, options, order, v) ==
  IF v # "Ok" THEN [status |-> v, result |-> [items |-> <<>>, scanned_count |-> 0, count |-> 0]]
  ELSE [status |-> "Ok", result |-> query_execute(lsi_pairs(lsi, order), condition, options)]

lsi_query_with_options(lsi, condition, options, order) ==
  lsi_query_validated(lsi, condition, options, order,
                      validate_condition(lsi_schema(lsi), condition))

(***************************************************************************)
(* Table                                                                   *)
(***************************************************************************)

\* a table value T is [schema, storage, gsis, lsis]; storage maps a storage key
\* to the encoded bytes, gsis and lsis map an index name to the index
Table(schema) == [schema |-> schema, storage |-> EmptyMap, gsis |-> EmptyMap, lsis |-> EmptyMap]

\* Option<Item>::None: no item has an attribute without a value
NoItem == [n \in {<<>>} |-> None]

\* results of the write operations
WriteOk(T, attributes, was_update) ==
  [status |-> "Ok", T |-> T, attributes |-> attributes, was_update |-> was_update]
WriteErr(T, e) == [status |-> e, T |-> T, attributes |-> NoItem, was_update |-> FALSE]

encode_item(item) == encode(M(item))

\* Table::decode_item: [ok, item]
decode_item_value(r) ==
  IF r.ok /\ r.val.t = "M" THEN [ok |-> TRUE, item |-> r.val.v] ELSE [ok |-> FALSE, item |-> EmptyItem]

decode_item(data) == decode_item_value(decode(data))

\* Table::get_item_by_storage_key: the item, None when absent, "Encoding" when undecodable
get_item_decoded(d) ==
  IF d.ok THEN [status |-> "Ok", item |-> d.item] ELSE [status |-> "Encoding", item |-> NoItem]

get_item_by_storage_key(T, storage_key) ==
  IF storage_key \in DOMAIN T.storage
  THEN get_item_decoded(decode_item(T.storage[storage_key]))
  ELSE [status |-> "Ok", item |-> NoItem]

\* Table::get / get_item
get(T, key) == get_item_by_storage_key(T, to_storage_key(key))

update_indexes_on_put(T, pk, item) ==
  [T EXCEPT !.gsis = [n \in DOMAIN T.gsis |-> gsi_put(T.gsis[n], pk, item)],
            !.lsis = [n \in DOMAIN T.lsis |-> lsi_put(T.lsis[n], pk, item)]]

\* update_indexes_on_delete that leaves the indexes alone: the variant under
\* which a deleted item stays indexed
update_indexes_on_delete_skipped(T, pk) == T

update_indexes_on_delete(T, pk) ==
  [T EXCEPT !.gsis = [n \in DOMAIN T.gsis |-> gsi_delete(T.gsis[n], pk)],
            !.lsis = [n \in DOMAIN T.lsis |-> lsi_delete(T.lsis[n], pk)]]

\* ReturnAttrs that hands back the written item for AllOld: the variant under
\* which a replaced item is lost to the caller
ReturnAttrs_all_old_is_new(return_value, old_item, new_item) ==
  CASE return_value = "None" -> NoItem
    [] return_value = "AllOld" -> new_item
    [] return_value = "AllNew" -> new_item

ReturnAttrs(return_value, old_item, new_item) ==
  CASE return_value = "None" -> NoItem
    [] return_value = "AllOld" -> old_item
    [] return_value = "AllNew" -> new_item

\* the condition gate shared by put / delete: "Ok" | "ConditionFailed" | "ConditionError"
CheckCondition_result(r) ==
  CASE r = "true" -> "Ok"
    [] r = "false" -> "ConditionFailed"
    [] OTHER -> "ConditionError"

\* CheckCondition that reads an evaluation error as false (unwrap_or(false)):
\* the variant under which a failing evaluation is reported as ConditionFailed
CheckCondition_error_as_false(condition, check_item) ==
  IF condition = None THEN "Ok"
  ELSE IF evaluate(condition, check_item) = "true" THEN "Ok" ELSE "ConditionFailed"

CheckCondition(condition, check_item) ==
  IF condition = None THEN "Ok"
  ELSE CheckCondition_result(evaluate(condition, check_item))

\* the tail of the put paths: storage.put of the encoded item, then
\* update_indexes_on_put
put_write(T, storage_key, pk, item) ==
  update_indexes_on_put([T EXCEPT !.storage = MapPut(@, storage_key, encode_item(item))],
                        pk, item)

put_internal_checked(T, item, return_value, pk, storage_key, old, c) ==
  IF c # "Ok" THEN WriteErr(T, c)
  ELSE WriteOk(put_write(T, storage_key, pk, item),
               ReturnAttrs(return_value, old.item, item), old.item # NoItem)

\* put_internal_read that evaluates the condition against the empty item: the
\* variant under which a condition never sees the stored item
put_internal_read_empty_item(T, item, condition, return_value, pk, storage_key, old) ==
  IF old.status # "Ok" THEN WriteErr(T, old.status)
  ELSE put_internal_checked(T, item, return_value, pk, storage_key, old,
                            CheckCondition(condition, EmptyItem))

put_internal_read(T, item, condition, return_value, pk, storage_key, old) ==
  IF old.status # "Ok" THEN WriteErr(T, old.status)
  ELSE put_internal_checked(T, item, return_value, pk, storage_key, old,
         CheckCondition(condition, IF old.item = NoItem THEN EmptyItem ELSE old.item))

put_internal_keyed(T, item, condition, return_value, pk, storage_key) ==
  put_internal_read(T, item, condition, return_value, pk, storage_key,
                    get_item_by_storage_key(T, storage_key))

put_internal_key(T, item, condition, return_value, pk) ==
  IF pk = None THEN WriteErr(T, "InvalidKey")
  ELSE put_internal_keyed(T, item, condition, return_value, pk, to_storage_key(pk))

put_internal_validated(T, item, condition, return_value, v) ==
  IF v # "Ok" THEN WriteErr(T, "InvalidKey")
  ELSE put_internal_key(T, item, condition, return_value, extract_key(item, T.schema))

put_internal(T, item, condition, return_value) ==
  put_internal_validated(T, item, condition, return_value, validate_key(item, T.schema))

\* put_if_not_exists_internal without the existence test: the variant that
\* overwrites
put_if_not_exists_internal_overwriting(T, item, return_value) ==
  put_internal(T, item, None, return_value)

put_if_not_exists_keyed(T, item, return_value, pk, storage_key) ==
  IF storage_key \in DOMAIN T.storage THEN WriteErr(T, "ItemAlreadyExists")
  ELSE WriteOk(put_write(T, storage_key, pk, item),
               ReturnAttrs(return_value, NoItem, item), FALSE)

put_if_not_exists_key(T, item, return_value, pk) ==
  IF pk = None THEN WriteErr(T, "InvalidKey")
  ELSE put_if_not_exists_keyed(T, item, return_value, pk, to_storage_key(pk))

put_if_not_exists_validated(T, item, return_value, v) ==
  IF v # "Ok" THEN WriteErr(T, "InvalidKey")
  ELSE put_if_not_exists_key(T, item, return_value, extract_key(item, T.schema))

put_if_not_exists_internal(T, item, return_value) ==
  put_if_not_exists_validated(T, item, return_value, validate_key(item, T.schema))

\* PutRequest: [item, condition, if_not_exists, return_value]
PutRequest(item, condition, if_not_exists, return_value) ==
  [item |-> item, condition |-> condition, if_not_exists |-> if_not_exists,
   return_value |-> return_value]

\* put that routes if_not_exists through the condition path: the variant under
\* which a collision is reported as a failed condition
put_through_condition(T, request) ==
  put_internal(T, request.item,
               IF request.if_not_exists
               THEN AttributeNotExists(attr(T.schema.partition_key.name))
               ELSE request.condition,
               request.return_value)

put(T, request) ==
  IF request.if_not_exists
  THEN put_if_not_exists_internal(T, request.item, request.return_value)
  ELSE put_internal(T, request.item, request.condition, request.return_value)

delete_early_write_checked(T, T1, key, return_value, old, c) ==
  IF old.status # "Ok" THEN WriteErr(T, old.status)
  ELSE IF c # "Ok" THEN WriteErr(T1, c)
  ELSE WriteOk(IF old.item # NoItem THEN update_indexes_on_delete(T1, key) ELSE T1,
               ReturnAttrs(return_value, old.item, NoItem), old.item # NoItem)

delete_early_write_read(T, key, condition, return_value, storage_key, old) ==
  delete_early_write_checked(T, [T EXCEPT !.storage = MapDel(@, storage_key)], key,
    return_value, old,
    CheckCondition(condition, IF old.item = NoItem THEN EmptyItem ELSE old.item))

delete_early_write_keyed(T, key, condition, return_value, storage_key) ==
  delete_early_write_read(T, key, condition, return_value, storage_key,
                          get_item_by_storage_key(T, storage_key))

\* delete_internal that removes the entry before it evaluates the condition: the
\* variant under which a failed delete has already written
delete_internal_early_write(T, key, condition, return_value) ==
  delete_early_write_keyed(T, key, condition, return_value, to_storage_key(key))

delete_internal_remove(T1, key, return_value, old, was_update) ==
  WriteOk(IF was_update THEN update_indexes_on_delete(T1, key) ELSE T1,
          ReturnAttrs(return_value, old.item, NoItem), was_update)

delete_internal_checked(T, key, return_value, storage_key, old, c) ==
  IF c # "Ok" THEN WriteErr(T, c)
  ELSE delete_internal_remove([T EXCEPT !.storage = MapDel(@, storage_key)], key,
                              return_value, old, old.item # NoItem)

delete_internal_read(T, key, condition, return_value, storage_key, old) ==
  IF old.status # "Ok" THEN WriteErr(T, old.status)
  ELSE delete_internal_checked(T, key, return_value, storage_key, old,
         CheckCondition(condition, IF old.item = NoItem THEN EmptyItem ELSE old.item))

delete_internal_keyed(T, key, condition, return_value, storage_key) ==
  delete_internal_read(T, key, condition, return_value, storage_key,
                       get_item_by_storage_key(T, storage_key))

delete_internal(T, key, condition, return_value) ==
  delete_internal_keyed(T, key, condition, return_value, to_storage_key(key))

update_write(T, key, return_value, storage_key, old, r) ==
  WriteOk(put_write(T, storage_key, key, r.item),
          ReturnAttrs(return_value, old.item, r.item), TRUE)

update_keys_unchecked_executed(T, key, return_value, storage_key, old, r) ==
  IF ~r.ok THEN WriteErr(T, "UpdateError")
  ELSE update_write(T, key, return_value, storage_key, old, r)

update_keys_unchecked_checked(T, key, expression, return_value, storage_key, old, c) ==
  IF c # "Ok" THEN WriteErr(T, c)
  ELSE update_keys_unchecked_executed(T, key, return_value, storage_key, old,
                                      execute(old.item, expression))

update_keys_unchecked_read(T, key, expression, condition, return_value, storage_key, old) ==
  IF old.status # "Ok" THEN WriteErr(T, old.status)
  ELSE IF old.item = NoItem THEN WriteErr(T, "ItemNotFound")
  ELSE update_keys_unchecked_checked(T, key, expression, return_value, storage_key, old,
                                     CheckCondition(condition, old.item))

update_keys_unchecked_keyed(T, key, expression, condition, return_value, storage_key) ==
  update_keys_unchecked_read(T, key, expression, condition, return_value, storage_key,
                             get_item_by_storage_key(T, storage_key))

\* update_internal without the key checks: the variant under which an update may
\* rewrite or remove the key attributes of the stored item
update_internal_keys_unchecked(T, key, expression, condition, return_value) ==
  update_keys_unchecked_keyed(T, key, expression, condition, return_value,
                              to_storage_key(key))

\* update_internal_new_key that only requires the key to be extractable: the
\* variant under which an update may move an item to another primary key
update_internal_new_key_presence_only(T, key, return_value, storage_key, old, r, new_key) ==
  IF new_key = None THEN WriteErr(T, "UpdateError")
  ELSE update_write(T, key, return_value, storage_key, old, r)

update_internal_new_key(T, key, return_value, storage_key, old, r, new_key) ==
  IF new_key = None THEN WriteErr(T, "UpdateError")
  ELSE IF new_key # key THEN WriteErr(T, "UpdateError")
  ELSE update_write(T, key, return_value, storage_key, old, r)

update_internal_executed(T, key, return_value, storage_key, old, r) ==
  IF ~r.ok THEN WriteErr(T, r.item)
  ELSE update_internal_new_key(T, key, return_value, storage_key, old, r,
                               extract_key(r.item, T.schema))

update_internal_checked(T, key, expression, return_value, storage_key, old, c) ==
  IF c # "Ok" THEN WriteErr(T, c)
  ELSE update_internal_executed(T, key, return_value, storage_key, old,
                                execute(old.item, expression))

\* update_internal_read that updates the empty item when the key holds
\* nothing: the variant in which update is an upsert
update_internal_read_upsert(T, key, expression, condition, return_value, storage_key, old) ==
  IF old.status # "Ok" THEN WriteErr(T, old.status)
  ELSE IF old.item = NoItem
  THEN update_internal_checked(T, key, expression, return_value, storage_key,
                               [old EXCEPT !.item = EmptyItem],
                               CheckCondition(condition, EmptyItem))
  ELSE update_internal_checked(T, key, expression, return_value, storage_key, old,
                               CheckCondition(condition, old.item))

update_internal_read(T, key, expression, condition, return_value, storage_key, old) ==
  IF old.status # "Ok" THEN WriteErr(T, old.status)
  ELSE IF old.item = NoItem THEN WriteErr(T, "ItemNotFound")
  ELSE update_internal_checked(T, key, expression, return_value, storage_key, old,
                               CheckCondition(condition, old.item))

update_internal_keyed(T, key, expression, condition, return_value, storage_key) ==
  update_internal_read(T, key, expression, condition, return_value, storage_key,
                       get_item_by_storage_key(T, storage_key))

update_internal(T, key, expression, condition, return_value) ==
  update_internal_keyed(T, key, expression, condition, return_value, to_storage_key(key))

\* put_item that refuses to replace: the variant under which the put of a
\* committed transaction fails on a key that holds an item
put_item_if_not_exists(T, item) == put(T, PutRequest(item, None, TRUE, "None"))

\* convenience methods
put_item(T, item) == put(T, PutRequest(item, None, FALSE, "None"))
delete_item(T, key) == delete_internal(T, key, None, "AllOld")
update_item(T, key, expression) == update_internal(T, key, expression, None, "None")

\* Table::clear
clear(T) ==
  [T EXCEPT !.storage = EmptyMap,
            !.gsis = [n \in DOMAIN T.gsis |-> gsi_clear(T.gsis[n])],
            !.lsis = [n \in DOMAIN T.lsis |-> lsi_clear(T.lsis[n])]]

\* Table::scan with no filter and no limit (scan_all): the decoded items in the
\* order `order` in which the backend yields its keys
scan_all(T, order) == [i \in 1..Len(order) |-> decode_item(T.storage[order[i]]).item]

\* the set of items a scan returns from a backend holding `stored`
ScanOf(stored) == {decode_item(stored[k]).item : k \in DOMAIN stored}
ScanSet(T) == ScanOf(T.storage)

ScanRequest(filter, limit) == [filter |-> filter, limit |-> limit]

\* scan_keep that keeps an item on which the filter raises an error: the
\* variant with unwrap_or(true)
scan_keep_on_error(filter, item) ==
  filter = None \/ evaluate(filter, item) # "false"

\* the filter test of Table::scan: evaluate(filter, &item).unwrap_or(false)
scan_keep(filter, item) ==
  filter = None \/ evaluate(filter, item) = "true"

scan_push(request, items, item) ==
  IF scan_keep(request.filter, item) THEN Append(items, item) ELSE items

\* Table::scan, the backend yielding its keys in the order `order`: the limit
\* is tested before each value is decoded, the filter after
RECURSIVE scan_loop(_, _, _, _)
scan_loop(T, request, order, items) ==
  IF order = <<>> \/ (request.limit # NoLimit /\ Len(items) >= request.limit)
  THEN [status |-> "Ok", items |-> items]
  ELSE IF ~decode_item(T.storage[Head(order)]).ok
  THEN [status |-> "DecodeError", items |-> <<>>]
  ELSE scan_loop(T, request, Tail(order),
                 scan_push(request, items, decode_item(T.storage[Head(order)]).item))

scan(T, request, order) == scan_loop(T, request, order, <<>>)

RECURSIVE gsi_backfill(_, _, _)
gsi_backfill_item(gsi, items, schema, pk) ==
  gsi_backfill(IF pk # None THEN gsi_put(gsi, pk, items[1]) ELSE gsi, Tail(items), schema)

gsi_backfill(gsi, items, schema) ==
  IF items = <<>> THEN gsi
  ELSE gsi_backfill_item(gsi, items, schema, extract_key(items[1], schema))

\* GsiBuilder: [name, schema, projection]
GsiBuilder(name, schema, projection) == [name |-> name, schema |-> schema, projection |-> projection]

\* Table::add_gsi
add_gsi(T, builder, order) ==
  [T EXCEPT !.gsis = MapPut(@, builder.name,
     gsi_backfill(GlobalSecondaryIndex(builder.schema, builder.projection, T.schema),
                  scan_all(T, order), T.schema))]

RECURSIVE lsi_backfill(_, _, _)
lsi_backfill_item(lsi, items, schema, pk) ==
  lsi_backfill(IF pk # None THEN lsi_put(lsi, pk, items[1]) ELSE lsi, Tail(items), schema)

lsi_backfill(lsi, items, schema) ==
  IF items = <<>> THEN lsi
  ELSE lsi_backfill_item(lsi, items, schema, extract_key(items[1], schema))

\* LsiBuilder: [name, sort_key, projection]
LsiBuilder(name, sort_key, projection) ==
  [name |-> name, sort_key |-> sort_key, projection |-> projection]

\* Table::add_lsi
add_lsi(T, builder, order) ==
  [T EXCEPT !.lsis = MapPut(@, builder.name,
     lsi_backfill(LocalSecondaryIndex(builder.sort_key, builder.projection, T.schema),
                  scan_all(T, order), T.schema))]

\* Table::query_gsi / query_lsi: "IndexNotFound" for an unknown index name
NoResult == [items |-> <<>>, scanned_count |-> 0, count |-> 0]

\* the filter step of the query entry points: an item on which the filter
\* errs is dropped
apply_filter_items(r, filtered) ==
  [r EXCEPT !.result.items = filtered, !.result.count = Len(filtered)]

apply_filter(r, filter) ==
  IF filter = None \/ r.status # "Ok" THEN r
  ELSE apply_filter_items(r, SelectSeq(r.result.items,
                                       LAMBDA item : evaluate(filter, item) = "true"))

\* QueryRequest: [key_condition, filter, options]
QueryRequest(key_condition, filter, options) ==
  [key_condition |-> key_condition, filter |-> filter, options |-> options]

query_gsi(T, index_name, request, order) ==
  IF index_name \in DOMAIN T.gsis
  THEN apply_filter(gsi_query_with_options(T.gsis[index_name], request.key_condition,
                                           request.options, order), request.filter)
  ELSE [status |-> "IndexNotFound", result |-> NoResult]

query_lsi(T, index_name, request, order) ==
  IF index_name \in DOMAIN T.lsis
  THEN apply_filter(lsi_query_with_options(T.lsis[index_name], request.key_condition,
                                           request.options, order), request.filter)
  ELSE [status |-> "IndexNotFound", result |-> NoResult]

\* Table::iter_with_keys, the backend yielding its keys in the order `order`:
\* the pairs [pk, item] of the stored items from which a key can be extracted
iter_with_keys_pair(T, item) == [pk |-> extract_key(item, T.schema), item |-> item]

iter_with_keys_pairs(T, items) ==
  [i \in 1..Len(items) |-> iter_with_keys_pair(T, items[i])]

iter_with_keys(T, order) ==
  iter_with_keys_pairs(T, SelectSeq(scan_all(T, order),
                                    LAMBDA item : extract_key(item, T.schema) # None))

\* Table::query_internal: [status, result]; the executor cuts the matching
\* items to the limit, the filter is applied to what the executor returned
query_internal_validated(T, key_condition, filter, options, order, v) ==
  IF v # "Ok" THEN [status |-> v, result |-> NoResult]
  ELSE apply_filter([status |-> "Ok",
                     result |-> query_execute(iter_with_keys(T, order), key_condition,
                                              options)], filter)

\* query_internal that filters what the executor found before cutting it to
\* the limit: the variant under which the limit counts the filtered items
query_internal_cut(r, options) ==
  IF r.status # "Ok" \/ options.limit = NoLimit THEN r
  ELSE apply_filter_items(r, Take(r.result.items, options.limit))

query_internal_filter_first(T, key_condition, filter, options, order) ==
  query_internal_cut(
    query_internal_validated(T, key_condition, filter, [options EXCEPT !.limit = NoLimit],
                             order, validate_condition(T.schema, key_condition)),
    options)

query_internal(T, key_condition, filter, options, order) ==
  query_internal_validated(T, key_condition, filter, options, order,
                           validate_condition(T.schema, key_condition))

(***************************************************************************)
(* Batch write                                                             *)
(***************************************************************************)

BatchPut(item) == [t |-> "Put", item |-> item, key |-> None]
BatchDelete(key) == [t |-> "Delete", item |-> EmptyItem, key |-> key]

\* execute_put that gives up at the first item it cannot put: the variant
\* under which one bad item keeps the later ones from being attempted
RECURSIVE execute_put_stop_at_failure(_, _, _)
execute_put_stop_at_failure(T, items, acc) ==
  IF items = <<>> \/ validate_key(items[1], T.schema) # "Ok"
  THEN [T |-> T, processed_count |-> acc.processed_count,
        unprocessed_items |-> acc.unprocessed_items
                              \o (IF items = <<>> THEN <<>> ELSE <<BatchPut(items[1])>>)]
  ELSE execute_put_stop_at_failure(put_item(T, items[1]).T, Tail(items),
                                   [acc EXCEPT !.processed_count = @ + 1])

\* BatchExecutor::execute_put: [T, processed_count, unprocessed_items]
RECURSIVE execute_put(_, _, _)
execute_put_result(items, acc, r) ==
  IF r.status = "Ok"
  THEN execute_put(r.T, Tail(items), [acc EXCEPT !.processed_count = @ + 1])
  ELSE execute_put(r.T, Tail(items),
                   [acc EXCEPT !.unprocessed_items = Append(@, BatchPut(items[1]))])

execute_put(T, items, acc) ==
  IF items = <<>> THEN [T |-> T, processed_count |-> acc.processed_count,
                        unprocessed_items |-> acc.unprocessed_items]
  ELSE IF validate_key(items[1], T.schema) # "Ok"
       THEN execute_put(T, Tail(items),
                        [acc EXCEPT !.unprocessed_items = Append(@, BatchPut(items[1]))])
       ELSE execute_put_result(items, acc, put_item(T, items[1]))

\* BatchExecutor::execute_delete
RECURSIVE execute_delete(_, _, _)
execute_delete_result(keys, acc, r) ==
  IF r.status = "Ok"
  THEN execute_delete(r.T, Tail(keys), [acc EXCEPT !.processed_count = @ + 1])
  ELSE execute_delete(r.T, Tail(keys),
                      [acc EXCEPT !.unprocessed_items = Append(@, BatchDelete(keys[1]))])

execute_delete(T, keys, acc) ==
  IF keys = <<>> THEN [T |-> T, processed_count |-> acc.processed_count,
                       unprocessed_items |-> acc.unprocessed_items]
  ELSE execute_delete_result(keys, acc, delete_item(T, keys[1]))

SelectSeq2(s, t) == SelectSeq(s, LAMBDA x : x.t = t)

\* Table::batch_write: all puts, then all deletes
batch_write_result(w, d) ==
  [T |-> d.T, processed_count |-> w.processed_count + d.processed_count,
   unprocessed_items |-> w.unprocessed_items \o d.unprocessed_items]

batch_write_deletes(deletes, w) ==
  batch_write_result(w, execute_delete(w.T, deletes,
                                       [processed_count |-> 0, unprocessed_items |-> <<>>]))

batch_write_split(T, puts, deletes) ==
  batch_write_deletes([i \in 1..Len(deletes) |-> deletes[i].key],
                      execute_put(T, [i \in 1..Len(puts) |-> puts[i].item],
                                  [processed_count |-> 0, unprocessed_items |-> <<>>]))

\* batch_write that applies the entries one by one in request order: the
\* variant under which a Put after a Delete of the same key leaves the item
RECURSIVE batch_write_in_order(_, _)
batch_write_in_order_step(T, item) ==
  IF item.t = "Put"
  THEN execute_put(T, <<item.item>>, [processed_count |-> 0, unprocessed_items |-> <<>>])
  ELSE execute_delete(T, <<item.key>>, [processed_count |-> 0, unprocessed_items |-> <<>>])

batch_write_in_order_rest(items, w) ==
  batch_write_result(w, batch_write_in_order(w.T, Tail(items)))

batch_write_in_order(T, items) ==
  IF items = <<>> THEN [T |-> T, processed_count |-> 0, unprocessed_items |-> <<>>]
  ELSE batch_write_in_order_rest(items, batch_write_in_order_step(T, items[1]))

batch_write(T, items) ==
  IF items = <<>> THEN [T |-> T, processed_count |-> 0, unprocessed_items |-> <<>>]
  ELSE batch_write_split(T, SelectSeq2(items, "Put"), SelectSeq2(items, "Delete"))

(***************************************************************************)
(* Write transactions                                                      *)
(***************************************************************************)

\* TransactWriteItem: every variant carries the same fields
TxPut(item, condition) ==
  [t |-> "Put", item |-> item, key |-> None, expression |-> <<>>, condition |-> condition]
TxUpdate(key, expression, condition) ==
  [t |-> "Update", item |-> EmptyItem, key |-> key, expression |-> expression,
   condition |-> condition]
TxDelete(key, condition) ==
  [t |-> "Delete", item |-> EmptyItem, key |-> key, expression |-> <<>>, condition |-> condition]
TxConditionCheck(key, condition) ==
  [t |-> "ConditionCheck", item |-> EmptyItem, key |-> key, expression |-> <<>>,
   condition |-> condition]

Failure(reason, index) == [reason |-> reason, index |-> index]
NoFailure == [reason |-> "Ok", index |-> -1]

\* TransactionExecutor::extract_key: the key, or None ("missing key attributes")
tx_extract_key(item, schema) ==
  IF item.t = "Put" THEN extract_key(item.item, schema) ELSE item.key

\* evaluate(..).unwrap_or(true): the variant under which a condition that
\* raises an error lets the item of a transaction through
eval_or_true(condition, item) == evaluate(condition, item) # "false"

\* evaluate(..).unwrap_or(false)
eval_or_false(condition, item) == evaluate(condition, item) = "true"

\* validate_write_item that accepts every item: the variant under which
\* phase 1 lets through what phase 2 then rejects
validate_write_item_accept_all(T, item, key, index) == NoFailure

\* TransactionExecutor::validate_write_item; index is 0-based as in the code
validate_update_new_key(key, index, new_key) ==
  IF new_key = None \/ new_key # key
  THEN Failure("KeyModification", index)
  ELSE NoFailure

validate_update_executed(T, key, index, r) ==
  IF ~r.ok THEN Failure("InvalidKey", index)
  ELSE validate_update_new_key(key, index, extract_key(r.item, T.schema))

validate_write_item_checked(T, item, key, index, cur, check) ==
  CASE item.t = "Put" ->
         IF validate_key(item.item, T.schema) # "Ok" THEN Failure("InvalidKey", index)
         ELSE IF item.condition # None /\ ~eval_or_false(item.condition, check)
              THEN Failure("ConditionCheckFailed", index)
              ELSE NoFailure
    [] item.t = "Update" ->
         IF cur.item = NoItem THEN Failure("ItemNotFound", index)
         ELSE IF item.condition # None /\ ~eval_or_false(item.condition, cur.item)
              THEN Failure("ConditionCheckFailed", index)
              ELSE validate_update_executed(T, key, index, execute(cur.item, item.expression))
    [] item.t = "Delete" ->
         IF item.condition # None /\ ~eval_or_false(item.condition, check)
         THEN Failure("ConditionCheckFailed", index)
         ELSE NoFailure
    [] item.t = "ConditionCheck" ->
         IF ~eval_or_false(item.condition, check)
         THEN Failure("ConditionCheckFailed", index)
         ELSE NoFailure

validate_write_item_current(T, item, key, index, cur) ==
  IF cur.status # "Ok" THEN Failure("InvalidKey", index)
  ELSE validate_write_item_checked(T, item, key, index, cur,
                                   IF cur.item = NoItem THEN EmptyItem ELSE cur.item)

validate_write_item(T, item, key, index) ==
  validate_write_item_current(T, item, key, index, get(T, key))

\* validate_write without the duplicate-target check: the variant under which
\* two items of one transaction may address the same key
RECURSIVE validate_write_no_duplicate_check(_, _, _, _)
validate_no_duplicate_check_item(T, items, i, seen, f) ==
  IF f # NoFailure THEN f
  ELSE validate_write_no_duplicate_check(T, items, i + 1, seen)

validate_no_duplicate_check_key(T, items, i, seen, key) ==
  IF key = None THEN Failure("InvalidKey", i - 1)
  ELSE validate_no_duplicate_check_item(T, items, i, seen,
                                        validate_write_item(T, items[i], key, i - 1))

validate_write_no_duplicate_check(T, items, i, seen) ==
  IF i > Len(items) THEN NoFailure
  ELSE validate_no_duplicate_check_key(T, items, i, seen, tx_extract_key(items[i], T.schema))

\* TransactionExecutor::validate_write: the first failure, or NoFailure
RECURSIVE validate_write(_, _, _, _)
\* validate_write_validated that goes on after a failure and reports the last
\* one: the variant under which the reason names a later item
validate_write_validated_last_failure(T, items, i, seen, key_str, f) ==
  IF validate_write(T, items, i + 1, seen \cup {key_str}) # NoFailure
  THEN validate_write(T, items, i + 1, seen \cup {key_str})
  ELSE f

validate_write_validated(T, items, i, seen, key_str, f) ==
  IF f # NoFailure THEN f
  ELSE validate_write(T, items, i + 1, seen \cup {key_str})

\* validate_write_unseen that validates the item before looking the key up in
\* seen: the variant under which a later item on the same key reports its own
\* failure instead of DuplicateItem
validate_write_unseen_validate_first(T, items, i, seen, key, key_str) ==
  IF validate_write_item(T, items[i], key, i - 1) # NoFailure
  THEN validate_write_item(T, items[i], key, i - 1)
  ELSE IF key_str \in seen THEN Failure("DuplicateItem", i - 1)
       ELSE validate_write(T, items, i + 1, seen \cup {key_str})

validate_write_unseen(T, items, i, seen, key, key_str) ==
  IF key_str \in seen THEN Failure("DuplicateItem", i - 1)
  ELSE validate_write_validated(T, items, i, seen, key_str,
                                validate_write_item(T, items[i], key, i - 1))

validate_write_key(T, items, i, seen, key) ==
  IF key = None THEN Failure("InvalidKey", i - 1)
  ELSE validate_write_unseen(T, items, i, seen, key, to_storage_key(key))

validate_write(T, items, i, seen) ==
  IF i > Len(items) THEN NoFailure
  ELSE validate_write_key(T, items, i, seen, tx_extract_key(items[i], T.schema))

\* apply_transact_write_item that treats Delete like ConditionCheck: the
\* variant under which a committed transaction leaves a deleted key in place
apply_transact_write_item_delete_skipped(T, item) ==
  CASE item.t = "Put" -> put_item(T, item.item)
    [] item.t = "Update" -> update_item(T, item.key, item.expression)
    [] item.t \in {"Delete", "ConditionCheck"} -> WriteOk(T, NoItem, FALSE)

\* Table::apply_transact_write_item: [status, T]
apply_transact_write_item(T, item) ==
  CASE item.t = "Put" -> put_item(T, item.item)
    [] item.t = "Update" -> update_item(T, item.key, item.expression)
    [] item.t = "Delete" -> delete_item(T, item.key)
    [] item.t = "ConditionCheck" -> WriteOk(T, NoItem, FALSE)

\* the phase-2 loop: stops at the first error, keeping what was applied
RECURSIVE apply_all(_, _, _)
apply_all_result(items, i, r) ==
  IF r.status # "Ok" THEN [status |-> r.status, T |-> r.T, applied |-> i - 1]
  ELSE apply_all(r.T, items, i + 1)

apply_all(T, items, i) ==
  IF i > Len(items) THEN [status |-> "Ok", T |-> T, applied |-> i - 1]
  ELSE apply_all_result(items, i, apply_transact_write_item(T, items[i]))

\* Table::convert_failure_to_error: the cancel reasons of the
\* TransactionCanceled error, vec![reason]
convert_failure_to_error(failure) ==
  << [failure EXCEPT !.reason = IF @ \in {"KeyModification", "InvalidKey"}
                                THEN "ValidationError" ELSE @] >>

\* Table::transact_write: [status, T, phase, reasons, applied]; phase is 0 for
\* the empty request, 1 when validation rejected it, 2 when the items were applied
transact_write_applied(r) ==
  [status |-> r.status, T |-> r.T, phase |-> 2, reasons |-> <<>>,
   applied |-> r.applied]

transact_write_validated(T, items, validation) ==
  IF validation # NoFailure
  THEN [status |-> "TransactionCanceled", T |-> T, phase |-> 1,
        reasons |-> convert_failure_to_error(validation), applied |-> 0]
  ELSE transact_write_applied(apply_all(T, items, 1))

\* execute_get that leaves out the keys under which nothing is stored: the
\* variant whose result lists the found items only
RECURSIVE execute_get_found_only(_, _, _)
execute_get_found_only(T, items, results) ==
  IF items = <<>> THEN [status |-> "Ok", items |-> results]
  ELSE IF get(T, Head(items)).status # "Ok"
  THEN [status |-> get(T, Head(items)).status, items |-> <<>>]
  ELSE execute_get_found_only(T, Tail(items),
                              IF get(T, Head(items)).item = NoItem THEN results
                              ELSE Append(results, get(T, Head(items)).item))

\* TransactionExecutor::execute_get with Table::get_item as get_item: the
\* request is the sequence of the keys of its Get items
RECURSIVE execute_get(_, _, _)
execute_get(T, items, results) ==
  IF items = <<>> THEN [status |-> "Ok", items |-> results]
  ELSE IF get(T, Head(items)).status # "Ok"
  THEN [status |-> get(T, Head(items)).status, items |-> <<>>]
  ELSE execute_get(T, Tail(items), Append(results, get(T, Head(items)).item))

\* Table::transact_get
transact_get(T, request) == execute_get(T, request, <<>>)

transact_write(T, items) ==
  IF items = <<>>
  THEN [status |-> "Ok", T |-> T, phase |-> 0, reasons |-> <<>>, applied |-> 0]
  ELSE transact_write_validated(T, items, validate_write(T, items, 1, {}))

(***************************************************************************)
(* Request universes                                                       *)
(***************************************************************************)

PkName == <<"p", "k">>
SkName == <<"s", "k">>
StName == <<"s", "t">>
VName  == <<"v">>

\* the table of the model: composite key (pk : S, sk : S)
TableSchema == KeySchema(KeyAttribute(PkName, "S"), KeyAttribute(SkName, "S"))

\* three primary keys: K1 and K2 share the partition key; the values hold the
\* characters the storage key escapes, and K2 / K3 differ only in where the
\* separator falls
K1 == PrimaryKey(S(<<"a">>), S(<<"\\">>))
K2 == PrimaryKey(S(<<"a">>), S(<<"b", "#", "S", ":", "b">>))
K3 == PrimaryKey(S(<<"a", "#", "S", ":", "b">>), S(<<"b">>))
Keys == {K1, K2, K3}

\* a key of the wrong shape for the table (no sort key)
KBad == PrimaryKey(S(<<"a">>), None)

\* every item of the model carries the non-key attribute v = N 1; st is absent,
\* a string (what the indexes declare) or a number
StValues == {None, S(<<"x">>), N(<<"1">>)}
V1 == N(<<"1">>)

WithAttr(item, name, value) == IF value = None THEN item ELSE ItemSet(item, name, value)

MkItem(key, st) ==
  WithAttr(ItemSet(ItemSet(ItemSet(EmptyItem, PkName, key.pk), SkName, key.sk), VName, V1),
           StName, st)

Items == {MkItem(k, st) : k \in Keys, st \in StValues}

\* items the table must reject: no sort key, partition key of the wrong type
NoSkItem == ItemSet(EmptyItem, PkName, S(<<"a">>))
BadPkItem == ItemSet(ItemSet(EmptyItem, PkName, N(<<"1">>)), SkName, S(<<"b">>))
BadItems == {NoSkItem, BadPkItem}

CondNotExists == AttributeNotExists(attr(PkName))
CondExists == AttributeExists(attr(PkName))
\* true on st = N 1, false on an absent st, TypeMismatch on st = S x
CondStLe == Compare(attr(StName), "Le", N(<<"1">>))

PutRequests ==
  {PutRequest(i, None, ine, "None") : i \in Items \cup BadItems, ine \in BOOLEAN}
    \cup {PutRequest(i, CondNotExists, FALSE, "None") : i \in Items}
    \cup {PutRequest(MkItem(K1, st), CondStLe, FALSE, "None") : st \in StValues}

UpdateExprs ==
  { <<Set(attr(StName), S(<<"x">>)), Set(attr(VName), V1)>>,
    <<Remove(attr(StName))>>,
    <<Set(attr(PkName), S(<<"z">>))>>,
    <<Remove(attr(SkName))>>,
    <<Set(attr(SkName), N(<<"1">>))>>,
    <<Add(attr(StName), N(<<"1">>))>> }

UpdateRequest(key, expression, condition) ==
  [key |-> key, expression |-> expression, condition |-> condition]
UpdateRequests ==
  {UpdateRequest(k, e, None) : k \in Keys \cup {KBad}, e \in UpdateExprs}
    \cup {UpdateRequest(k, <<Remove(attr(StName))>>, CondStLe) : k \in Keys}

DeleteRequest(key, condition) == [key |-> key, condition |-> condition]
DeleteRequests ==
  {DeleteRequest(k, None) : k \in Keys \cup {KBad}}
    \cup {DeleteRequest(k, CondStLe) : k \in Keys}
    \cup {DeleteRequest(K3, CondNotExists)}

MaxItems == 2
MaxCounter == 1
MaxBatch == 2
MaxTx == 2

SeqsUpTo(U, n) == UNION {[1..m -> U] : m \in 0..n}

\* actions on st whose outcome depends on what the earlier ones left
OrderedActions ==
  { Set(attr(StName), N(<<"1">>)), Add(attr(StName), N(<<"1">>)), Remove(attr(StName)),
    SetIfNotExists(attr(StName), S(<<"x">>)) }
MaxActions == 2
OrderedExprs == SeqsUpTo(OrderedActions, MaxActions)

I1x == MkItem(K1, S(<<"x">>))
I2x == MkItem(K2, S(<<"x">>))
I3n == MkItem(K3, N(<<"1">>))

BatchItems == {BatchPut(I1x), BatchPut(I2x), BatchPut(NoSkItem), BatchDelete(K1)}
BatchRequests == SeqsUpTo(BatchItems, MaxBatch)

TxItems ==
  { TxPut(I1x, None), TxPut(I3n, CondNotExists), TxPut(BadPkItem, None),
    TxUpdate(K1, <<Add(attr(StName), N(<<"1">>))>>, None),
    TxUpdate(K2, <<Set(attr(PkName), S(<<"z">>))>>, CondExists),
    TxDelete(K1, CondStLe),
    TxConditionCheck(K3, CondExists) }
TxRequests == SeqsUpTo(TxItems, MaxTx)

\* the secondary indexes of the model: a GSI keyed by (st : S, pk : S), so that
\* items of one partition with the same st have identical index keys, and an
\* LSI sorted by st
GsiName == <<"g">>
LsiName == <<"l">>
GsiSchema == KeySchema(KeyAttribute(StName, "S"), KeyAttribute(PkName, "S"))
GsiBuilders == {GsiBuilder(GsiName, GsiSchema, ProjKeysOnly)}
LsiBuilders == {LsiBuilder(LsiName, KeyAttribute(StName, "S"), ProjAll)}

GsiConditions ==
  { KeyCondition(S(<<"x">>), None),
    KeyCondition(S(<<"x">>), SortKeyOp("Eq", S(<<"a">>), None)),
    KeyCondition(N(<<"1">>), None) }
LsiConditions ==
  { KeyCondition(S(<<"a">>), None),
    KeyCondition(S(<<"a">>), SortKeyOp("BeginsWith", S(<<"x">>), None)),
    KeyCondition(S(<<"a">>), SortKeyOp("Eq", N(<<"1">>), None)) }
QueryOptionsSet == {QueryOptions(NoLimit, TRUE)}

(***************************************************************************)
(* The state machine                                                       *)
(***************************************************************************)

\* the table as a value
Tbl == [schema |-> TableSchema, storage |-> storage, gsis |-> gsis, lsis |-> lsis]

Last(op, status) == [op |-> op, status |-> status]

\* a stored st within the bound
StWithinBounds(st) == st.t = "N" => ParseI64(st.v).val <= MaxCounter

\* the bounds of the model: at most MaxItems stored items, numeric st at most
\* MaxCounter
WithinBounds(T) ==
  /\ Cardinality(DOMAIN T.storage) <= MaxItems
  /\ \A k \in DOMAIN T.storage :
       StWithinBounds(ItemGet(decode_item(T.storage[k]).item, StName))

Init ==
  /\ storage = EmptyMap
  /\ gsis = EmptyMap
  /\ lsis = EmptyMap
  /\ last = Last("new", "Ok")
  /\ call = NoCall
  /\ ret = NoCall

Apply(T, op, status) ==
  /\ WithinBounds(T)
  /\ storage' = T.storage
  /\ gsis' = T.gsis
  /\ lsis' = T.lsis
  /\ last' = Last(op, status)
  /\ UNCHANGED <<call, ret>>

\* the step that installs the outcome r of a write operation
ApplyResult(r, op) == Apply(r.T, op, r.status)

Put ==
  \E request \in PutRequests :
    ApplyResult(put(Tbl, request),
                IF request.if_not_exists THEN "PutIfNotExists" ELSE "Put")

Update ==
  \E request \in UpdateRequests :
    ApplyResult(update_internal(Tbl, request.key, request.expression, request.condition,
                                "None"), "Update")

Delete ==
  \E request \in DeleteRequests :
    ApplyResult(delete_internal(Tbl, request.key, request.condition, "None"), "Delete")

BatchWrite ==
  \E request \in BatchRequests :
    Apply(batch_write(Tbl, request).T, "BatchWrite", "Ok")

TransactWrite ==
  \E request \in TxRequests :
    ApplyResult(transact_write(Tbl, request), "TransactWrite")

Clear == Apply(clear(Tbl), "Clear", "Ok")

AddGsi ==
  \E builder \in GsiBuilders, order \in Orders(DOMAIN storage) :
    Apply(add_gsi(Tbl, builder, order), "AddGsi", "Ok")

AddLsi ==
  \E builder \in LsiBuilders, order \in Orders(DOMAIN storage) :
    Apply(add_lsi(Tbl, builder, order), "AddLsi", "Ok")

QueryGsi ==
  /\ GsiName \in DOMAIN gsis
  /\ \E c \in GsiConditions, o \in QueryOptionsSet, order \in Orders(DOMAIN gsis[GsiName].data) :
       Apply(Tbl, "QueryGsi", query_gsi(Tbl, GsiName, QueryRequest(c, None, o), order).status)

QueryLsi ==
  /\ LsiName \in DOMAIN lsis
  /\ \E c \in LsiConditions, o \in QueryOptionsSet, order \in Orders(DOMAIN lsis[LsiName].data) :
       Apply(Tbl, "QueryLsi", query_lsi(Tbl, LsiName, QueryRequest(c, None, o), order).status)

Next ==
  \/ Put
  \/ Update
  \/ Delete
  \/ BatchWrite
  \/ TransactWrite
  \/ Clear
  \/ AddGsi
  \/ AddLsi
  \/ QueryGsi
  \/ QueryLsi

Spec == Init /\ [][Next]_vars

(***************************************************************************)
(* The pure functions, each called once on an input of its universe        *)
(***************************************************************************)

\* the table of a state in which a pure function is called: new and untouched
NewTable ==
  /\ storage = EmptyMap
  /\ gsis = EmptyMap
  /\ lsis = EmptyMap
  /\ last = Last("new", "Ok")

\* conditions of the evaluator's universe: every comparison of an attribute
\* that is absent, a string, a number or a map with a string, a number or a map,
\* and the conjunctions, disjunctions and negations of comparisons of st
EvalPaths == {attr(StName), attr(VName), attr(PkName)}
EvalOps == {"Eq", "Ne", "Lt", "Le", "Gt", "Ge"}
EvalValues == {S(<<"x">>), S(<<"a">>), N(<<"1">>), N(<<"2">>), M(EmptyItem)}
EvalCompares == {Compare(path, op, value) : path \in EvalPaths, op \in EvalOps, value \in EvalValues}
EvalOperands ==
  {Compare(attr(StName), op, value) : op \in {"Eq", "Lt"}, value \in {S(<<"x">>), N(<<"1">>)}}
EvalConditions ==
  EvalCompares \cup {And(l, r) : l \in EvalOperands, r \in EvalOperands}
    \cup {Or(l, r) : l \in EvalOperands, r \in EvalOperands}
    \cup {Not(c) : c \in EvalOperands}
EvalItems ==
  {EmptyItem} \cup {MkItem(K1, st) : st \in StValues}
    \cup {ItemSet(MkItem(K1, None), StName, M(EmptyItem))}

EvalCall(condition, item) == [f |-> "evaluate", condition |-> condition, item |-> item]

EvalInit ==
  /\ NewTable
  /\ call \in {EvalCall(condition, item) : condition \in EvalConditions, item \in EvalItems}
  /\ ret = Pending

Evaluate ==
  /\ ret.f = "pending"
  /\ ret' = Returned(evaluate(call.condition, call.item))
  /\ UNCHANGED <<storage, gsis, lsis, last, call>>

EvalNext == Evaluate

EvalSpec == EvalInit /\ [][EvalNext]_vars

\* The table under put and update with string-set values: st holds a set in
\* every put item, and the updates add to it, delete from it, replace it or
\* remove it.  No value of a request is an empty set
TagSets == {Ss({<<"a">>}), Ss({<<"a">>, <<"b">>})}

SetPutRequests ==
  {PutRequest(MkItem(k, st), None, FALSE, "None") : k \in Keys, st \in TagSets \cup {None}}

SetUpdateExprs ==
  { <<Add(attr(StName), Ss({<<"b">>}))>>,
    <<DeleteFrom(attr(StName), Ss({<<"a">>}))>>,
    <<DeleteFrom(attr(StName), Ss({<<"a">>, <<"b">>}))>>,
    <<Set(attr(StName), Ss({<<"a">>}))>>,
    <<Remove(attr(StName))>> }

SetUpdateRequests == {UpdateRequest(k, e, None) : k \in Keys, e \in SetUpdateExprs}

SetPut ==
  \E request \in SetPutRequests : ApplyResult(put(Tbl, request), "Put")

SetUpdate ==
  \E request \in SetUpdateRequests :
    ApplyResult(update_internal(Tbl, request.key, request.expression, request.condition,
                                "None"), "Update")

SetNext == SetPut \/ SetUpdate

SetSpec == Init /\ [][SetNext]_vars

\* encode then decode of one attribute value.  The universe has the ten
\* variants, strings, byte strings and collections of every size of
\* CodecSizes (both sides of the length boundary of write_len), each of
\* them alone, in a list and in a map, and documents nested two deep
LenBoundary == 128

CodecSizes == {0, 1, LenBoundary - 1, LenBoundary, LenBoundary + 1}

Rep(c, n) == [i \in 1..n |-> c]

\* n distinct strings, n distinct decimal strings and n distinct byte strings
CodecNames(n) == {<<Ascii[1 + (i \div 64)], Ascii[1 + (i % 64)]>> : i \in 0..(n - 1)}
CodecNumbers(n) == {FormatDec(i, 0) : i \in 0..(n - 1)}
CodecByteStrings(n) == {<<i, 255 - i>> : i \in 0..(n - 1)}

CodecScalars ==
  {S(Rep("x", n)) : n \in CodecSizes}
    \cup {N(<<"1">>), N(<<"-", "9", "9", ".", "9", "9">>), N(Rep("9", LenBoundary))}
    \cup {B([i \in 1..n |-> (i * 37) % 256]) : n \in CodecSizes}
    \cup {BoolV(TRUE), BoolV(FALSE), Null}

CodecSets ==
  {Ss(CodecNames(n)) : n \in CodecSizes}
    \cup {Ns(CodecNumbers(n)) : n \in CodecSizes}
    \cup {Bs(CodecByteStrings(n)) : n \in CodecSizes}

CodecLeaves == CodecScalars \cup CodecSets

CodecDocuments ==
  {L(<<x>>) : x \in CodecLeaves}
    \cup {M([k \in {<<"k">>} |-> x]) : x \in CodecLeaves}
    \cup {L([i \in 1..n |-> Null]) : n \in CodecSizes}
    \cup {M([k \in CodecNames(n) |-> BoolV(TRUE)]) : n \in CodecSizes}

CodecNested ==
  {L(<<x, M([k \in {<<>>, <<"k">>} |-> L(<<x, Null>>)])>>) : x \in CodecLeaves}

CodecValues == CodecLeaves \cup CodecDocuments \cup CodecNested

CodecCall(value) == [f |-> "roundtrip", value |-> value]

Encoded(data) == [f |-> "encoded", val |-> data]

CodecInit ==
  /\ NewTable
  /\ \E value \in CodecValues : call = CodecCall(value)
  /\ ret = Pending

CodecEncode ==
  /\ ret.f = "pending"
  /\ ret' = Encoded(encode(call.value))
  /\ UNCHANGED <<storage, gsis, lsis, last, call>>

CodecDecode ==
  /\ ret.f = "encoded"
  /\ ret' = Returned(decode(ret.val))
  /\ UNCHANGED <<storage, gsis, lsis, last, call>>

CodecNext == CodecEncode \/ CodecDecode

CodecSpec == CodecInit /\ [][CodecNext]_vars

\* A GSI and an LSI under their own put, delete and clear, called with any
\* table key and any item, the item's key attributes being those of the table
\* key or not.  storage records the item last put for each table key, under
\* the table key's storage key
IndexInit ==
  /\ storage = EmptyMap
  /\ gsis = MapPut(EmptyMap, GsiName,
                   GlobalSecondaryIndex(GsiSchema, ProjKeysOnly, TableSchema))
  /\ lsis = MapPut(EmptyMap, LsiName,
                   LocalSecondaryIndex(KeyAttribute(StName, "S"), ProjAll, TableSchema))
  /\ last = Last("new", "Ok")
  /\ call = NoCall
  /\ ret = NoCall

index_put(T, table_key, item) ==
  update_indexes_on_put(
    [T EXCEPT !.storage = MapPut(@, to_storage_key(table_key), encode_item(item))],
    table_key, item)

index_delete(T, table_key) ==
  update_indexes_on_delete(
    [T EXCEPT !.storage = MapDel(@, to_storage_key(table_key))], table_key)

IndexPut ==
  \E table_key \in Keys, item \in Items :
    Apply(index_put(Tbl, table_key, item), "IndexPut", "Ok")

IndexDelete ==
  \E table_key \in Keys : Apply(index_delete(Tbl, table_key), "IndexDelete", "Ok")

IndexClear == Apply(clear(Tbl), "IndexClear", "Ok")

IndexNext == IndexPut \/ IndexDelete \/ IndexClear

IndexSpec == IndexInit /\ [][IndexNext]_vars

\* validate_condition called with every key condition of the universe under
\* every schema: partition and sort keys of type S, N and B, schemas without
\* sort key, every sort-key operator with an operand of each type, Between
\* with bounds of each pair of types
ValidateValues == {S(<<"a">>), N(<<"1">>), B(<<1>>)}

ValidateTypes == {"S", "N", "B"}

ValidateSchemas ==
  {KeySchema(KeyAttribute(PkName, pk), KeyAttribute(SkName, sk)) :
     pk \in ValidateTypes, sk \in ValidateTypes}
    \cup {KeySchema(KeyAttribute(PkName, pk), NoAttr) : pk \in ValidateTypes}

ValidateOps ==
  {SortKeyOp(op, v, None) :
     op \in {"Eq", "Lt", "Le", "Gt", "Ge", "BeginsWith"}, v \in ValidateValues}
    \cup {SortKeyOp("Between", low, high) : low \in ValidateValues, high \in ValidateValues}

ValidateConditions ==
  {KeyCondition(pk, sort_key) : pk \in ValidateValues, sort_key \in {None} \cup ValidateOps}

ValidateCall(schema, condition) ==
  [f |-> "validate_condition", schema |-> schema, condition |-> condition]

ValidateInit ==
  /\ NewTable
  /\ \E schema \in ValidateSchemas, condition \in ValidateConditions :
       call = ValidateCall(schema, condition)
  /\ ret = Pending

Validate ==
  /\ ret.f = "pending"
  /\ ret' = Returned(validate_condition(call.schema, call.condition))
  /\ UNCHANGED <<storage, gsis, lsis, last, call>>

ValidateNext == Validate

ValidateSpec == ValidateInit /\ [][ValidateNext]_vars

\* IndexStorage<V>: [data, reverse_index]; data maps an index key to a value,
\* reverse_index a table key to an index key
IndexStorage == [data |-> EmptyMap, reverse_index |-> EmptyMap]

\* IndexStorage::get
index_storage_get(st, index_key) ==
  IF index_key \in DOMAIN st.data THEN st.data[index_key] ELSE None

\* IndexStorage::remove_by_table_key: [st, old]
index_storage_remove_by_table_key(st, table_key) ==
  IF table_key \in DOMAIN st.reverse_index
  THEN [st |-> [data |-> MapDel(st.data, st.reverse_index[table_key]),
                reverse_index |-> MapDel(st.reverse_index, table_key)],
        old |-> index_storage_get(st, st.reverse_index[table_key])]
  ELSE [st |-> st, old |-> None]

index_storage_put_removed(r, table_key, index_key, value) ==
  [st |-> [data |-> MapPut(r.st.data, index_key, value),
           reverse_index |-> MapPut(r.st.reverse_index, table_key, index_key)],
   old |-> r.old]

\* put without remove_by_table_key: the variant that leaves the value under
\* the table key's former index key in data
index_storage_put_keep_old(st, table_key, index_key, value) ==
  index_storage_put_removed([st |-> st, old |-> None], table_key, index_key, value)

\* IndexStorage::put: [st, old]
index_storage_put(st, table_key, index_key, value) ==
  index_storage_put_removed(index_storage_remove_by_table_key(st, table_key),
                            table_key, index_key, value)

\* IndexStorage::len
index_storage_len(st) == Cardinality(DOMAIN st.data)

\* An IndexStorage under put and remove_by_table_key with every table key,
\* index key and value of the universe.  storage holds the IndexStorage, call
\* the last call and ret what it returned; last.live records for each table
\* key the value most recently put for it and not removed since (None if
\* there is none), last.shared whether some put used an index key under which
\* another table key had a live entry
StorageTableKeys == {<<"t", "1">>, <<"t", "2">>}
StorageIndexKeys == {<<"i", "1">>, <<"i", "2">>}
StorageValues == {S(<<"x">>), S(<<"y">>)}

StorageLast(op, live, shared) ==
  [op |-> op, status |-> "Ok", live |-> live, shared |-> shared]

StorageCall(f, table_key, index_key, value) ==
  [f |-> f, table_key |-> table_key, index_key |-> index_key, value |-> value]

StorageInit ==
  /\ storage = IndexStorage
  /\ gsis = EmptyMap
  /\ lsis = EmptyMap
  /\ last = StorageLast("new", [t \in StorageTableKeys |-> None], FALSE)
  /\ call = NoCall
  /\ ret = NoCall

SharesIndexKey(table_key, index_key) ==
  \E other \in DOMAIN storage.reverse_index :
    other # table_key /\ storage.reverse_index[other] = index_key

StorageStep(r, c, live, shared) ==
  /\ storage' = r.st
  /\ ret' = Returned(r.old)
  /\ call' = c
  /\ last' = StorageLast(c.f, live, shared)
  /\ UNCHANGED <<gsis, lsis>>

StoragePut ==
  \E table_key \in StorageTableKeys, index_key \in StorageIndexKeys, value \in StorageValues :
    StorageStep(index_storage_put(storage, table_key, index_key, value),
                StorageCall("put", table_key, index_key, value),
                [last.live EXCEPT ![table_key] = value],
                last.shared \/ SharesIndexKey(table_key, index_key))

StorageRemove ==
  \E table_key \in StorageTableKeys :
    StorageStep(index_storage_remove_by_table_key(storage, table_key),
                StorageCall("remove_by_table_key", table_key, None, None),
                [last.live EXCEPT ![table_key] = None],
                last.shared)

StorageNext == StoragePut \/ StorageRemove

StorageSpec == StorageInit /\ [][StorageNext]_vars

\* The table under put with indexes of every projection: the GSI and the LSI
\* are added, and added again, with All, KeysOnly, Include of an attribute
\* the items hold and Include of one they do not hold
ProjProjections ==
  {ProjAll, ProjKeysOnly, ProjInclude({VName}), ProjInclude({<<"z">>})}

ProjGsiBuilders == {GsiBuilder(GsiName, GsiSchema, p) : p \in ProjProjections}

ProjLsiBuilders ==
  {LsiBuilder(LsiName, KeyAttribute(StName, "S"), p) : p \in ProjProjections}

ProjPut ==
  \E item \in Items : ApplyResult(put(Tbl, PutRequest(item, None, FALSE, "None")), "Put")

ProjAddGsi ==
  \E builder \in ProjGsiBuilders, order \in Orders(DOMAIN storage) :
    Apply(add_gsi(Tbl, builder, order), "AddGsi", "Ok")

ProjAddLsi ==
  \E builder \in ProjLsiBuilders, order \in Orders(DOMAIN storage) :
    Apply(add_lsi(Tbl, builder, order), "AddLsi", "Ok")

ProjNext == ProjPut \/ ProjAddGsi \/ ProjAddLsi

ProjSpec == Init /\ [][ProjNext]_vars

\* The table under put and update with list values: K1 holds an item whose st
\* is a list, no list, or absent, and the updates set a list element by index,
\* in st or in the list that is st's first element.  Lists hold at most
\* MaxList elements
MaxList == 2

ListValues == {N(<<"1">>), N(<<"2">>), L(<<>>)}

ListParents == {<<Key(StName)>>, <<Key(StName), Index(0)>>}

ListPaths == {parent \o <<Index(i)>> : parent \in ListParents, i \in 0..(MaxList + 1)}

ListPutRequests ==
  {PutRequest(MkItem(K1, st), None, FALSE, "None") : st \in {None, S(<<"x">>), L(<<>>)}}

ListUpdateRequests ==
  {UpdateRequest(K1, <<Set(path, value)>>, None) : path \in ListPaths, value \in ListValues}

RECURSIVE ListsWithinBounds(_)
ListsWithinBounds(value) ==
  value.t = "L" =>
    /\ Len(value.v) <= MaxList
    /\ \A i \in 1..Len(value.v) : ListsWithinBounds(value.v[i])

ListApply(r, op) ==
  /\ \A k \in DOMAIN r.T.storage :
       ListsWithinBounds(ItemGet(decode_item(r.T.storage[k]).item, StName))
  /\ ApplyResult(r, op)

ListPut ==
  \E request \in ListPutRequests : ListApply(put(Tbl, request), "Put")

ListUpdate ==
  \E request \in ListUpdateRequests :
    ListApply(update_internal(Tbl, request.key, request.expression, request.condition,
                              "None"), "Update")

ListNext == ListPut \/ ListUpdate

ListSpec == Init /\ [][ListNext]_vars

\* QueryExecutor::execute on the pairs (primary key, item) that
\* Table::iter_with_keys yields for a table: every stored item once, in the
\* order of the storage map's iteration, which is any order.  The tables have
\* an N, an S or a B sort key; each holds up to MaxQueryItems items
MaxQueryItems == 3
MaxLimit == 2

QueryKeysN ==
  {PrimaryKey(S(<<"a">>), N(n)) :
     n \in {<<"-", "1">>, <<"1">>, <<"9">>, <<"9", ".", "0">>, <<"1", "0">>}}
  \cup {PrimaryKey(S(<<"b">>), N(<<"5">>))}
QueryKeysS ==
  {PrimaryKey(S(<<"a">>), S(x)) : x \in {<<"B">>, <<"a">>, <<"a", "b">>, <<"b">>, <<"a", "#">>}}
  \cup {PrimaryKey(S(<<"b">>), S(<<"a">>))}
QueryKeysB ==
  {PrimaryKey(S(<<"a">>), B(x)) : x \in {<<1>>, <<1, 0>>, <<2>>, <<10>>, <<200>>}}
  \cup {PrimaryKey(S(<<"b">>), B(<<1>>))}

QueryTables ==
  { [keys |-> QueryKeysN,
     conditions |-> {KeyCondition(S(<<"a">>), None),
                     KeyCondition(S(<<"a">>), SortKeyOp("Ge", N(<<"1">>), None))}],
    [keys |-> QueryKeysS,
     conditions |-> {KeyCondition(S(<<"a">>), None),
                     KeyCondition(S(<<"a">>), SortKeyOp("BeginsWith", S(<<"a">>), None))}],
    [keys |-> QueryKeysB,
     conditions |-> {KeyCondition(S(<<"a">>), None),
                     KeyCondition(S(<<"a">>), SortKeyOp("Between", B(<<1>>), B(<<10>>)))}] }

QueryItem(key) == ItemSet(ItemSet(EmptyItem, PkName, key.pk), SkName, key.sk)

\* the pairs of a table holding the keys of s, iterated in the order of s
IterWithKeys(s) == [i \in 1..Len(s) |-> [pk |-> s[i], item |-> QueryItem(s[i])]]

StoredKeys(U) ==
  {s \in SeqsUpTo(U, MaxQueryItems) : \A i, j \in 1..Len(s) : i # j => s[i] # s[j]}

QueryLimits == {NoLimit} \cup 0..MaxLimit

QueryCall(items, condition, options) ==
  [f |-> "execute", items |-> items, condition |-> condition, options |-> options]

QueryInit ==
  /\ NewTable
  /\ \E table \in QueryTables :
       \E s \in StoredKeys(table.keys), condition \in table.conditions,
          limit \in QueryLimits, forward \in BOOLEAN :
         call = QueryCall(IterWithKeys(s), condition, QueryOptions(limit, forward))
  /\ ret = Pending

QueryExecute ==
  /\ ret.f = "pending"
  /\ ret' = Returned(query_execute(call.items, call.condition, call.options))
  /\ UNCHANGED <<storage, gsis, lsis, last, call>>

QueryNext == QueryExecute

QuerySpec == QueryInit /\ [][QueryNext]_vars

\* The table under put and under query with a filter and a limit: the query
\* is recorded in call, what it returned in ret; a put forgets both, and the
\* table is queried once between two puts
FilterConditions == {KeyCondition(k.pk, None) : k \in Keys}

FilterFilters ==
  {None, Compare(attr(StName), "Eq", S(<<"x">>)), CondStLe, AttributeExists(attr(StName))}

FilterLimits == {NoLimit} \cup 0..MaxLimit

FilterCall(key_condition, filter, options, order) ==
  [f |-> "query", key_condition |-> key_condition, filter |-> filter,
   options |-> options, order |-> order]

FilterPutStep(r) ==
  /\ WithinBounds(r.T)
  /\ storage' = r.T.storage
  /\ gsis' = r.T.gsis
  /\ lsis' = r.T.lsis
  /\ last' = Last("Put", r.status)
  /\ call' = NoCall
  /\ ret' = NoCall

FilterPut ==
  \E item \in Items : FilterPutStep(put(Tbl, PutRequest(item, None, FALSE, "None")))

FilterQueryStep(c) ==
  /\ call' = c
  /\ ret' = Returned(query_internal(Tbl, c.key_condition, c.filter, c.options, c.order))
  /\ last' = Last("Query", "Ok")
  /\ UNCHANGED <<storage, gsis, lsis>>

FilterQuery ==
  /\ ret.f = "none"
  /\ \E key_condition \in FilterConditions, filter \in FilterFilters, limit \in FilterLimits,
        forward \in BOOLEAN, order \in Orders(DOMAIN storage) :
       FilterQueryStep(FilterCall(key_condition, filter, QueryOptions(limit, forward), order))

FilterNext == FilterPut \/ FilterQuery

FilterSpec == Init /\ [][FilterNext]_vars

(***************************************************************************)
(* Properties                                                              *)
(***************************************************************************)

\* C1: a transact_write that returns an error leaves the table's contents (what
\* scan returns, and the stored bytes) as they were before the call.
C1_TransactWriteErrorLeavesTable ==
  [][(last'.op = "TransactWrite" /\ last'.status # "Ok")
       => (storage' = storage /\ ScanOf(storage') = ScanOf(storage))]_vars

\* a rejected transaction on a table that holds items
C1_Witness ==
  /\ last.op = "TransactWrite"
  /\ last.status = "TransactionCanceled"
  /\ Cardinality(DOMAIN storage) = MaxItems

\* what a secondary index must hold for the table item `item`
GsiEntryKey(gsi, item) ==
  gsi_make_storage_key(gsi_extract_index_key(gsi, item), extract_key(item, TableSchema))
GsiEntry(gsi, item) ==
  [key |-> extract_key(item, TableSchema),
   item |-> project_item(gsi.projection, item, TableSchema, gsi.schema)]
LsiEntryKey(lsi, item) ==
  lsi_make_storage_key(extract_key(item, TableSchema).pk, extract_lsi_sort_key(lsi, item),
                       extract_key(item, TableSchema))
LsiEntry(lsi, item) == project_item(lsi.projection, item, TableSchema, lsi_schema(lsi))

GsiIndexed(gsi) == {item \in ScanOf(storage) : gsi_extract_index_key(gsi, item) # None}
LsiIndexed(lsi) == {item \in ScanOf(storage) : extract_lsi_sort_key(lsi, item) # None}

\* C2: sparse index correctness. In every reachable state each GSI and each LSI
\* holds one entry for exactly the stored items whose index key can be
\* extracted, under that item's index storage key, holding the projection of
\* the item's current attributes; it holds nothing else, and its reverse map
\* names exactly those entries.
C2_SparseIndexCorrect ==
  /\ \A n \in DOMAIN gsis :
       LET g == gsis[n] IN
       /\ DOMAIN g.data = {GsiEntryKey(g, item) : item \in GsiIndexed(g)}
       /\ Cardinality(DOMAIN g.data) = Cardinality(GsiIndexed(g))
       /\ \A item \in GsiIndexed(g) : g.data[GsiEntryKey(g, item)] = GsiEntry(g, item)
       /\ DOMAIN g.table_key_index =
            {to_storage_key(extract_key(item, TableSchema)) : item \in GsiIndexed(g)}
  /\ \A n \in DOMAIN lsis :
       LET l == lsis[n] IN
       /\ DOMAIN l.data = {LsiEntryKey(l, item) : item \in LsiIndexed(l)}
       /\ Cardinality(DOMAIN l.data) = Cardinality(LsiIndexed(l))
       /\ \A item \in LsiIndexed(l) : l.data[LsiEntryKey(l, item)] = LsiEntry(l, item)
       /\ DOMAIN l.table_key_index =
            {to_storage_key(extract_key(item, TableSchema)) : item \in LsiIndexed(l)}

\* after a delete, both indexes exist, one stored item is indexed and one is not
C2_Witness ==
  /\ last.op = "Delete"
  /\ last.status = "Ok"
  /\ GsiName \in DOMAIN gsis
  /\ LsiName \in DOMAIN lsis
  /\ Cardinality(DOMAIN storage) = 2
  /\ Cardinality(DOMAIN gsis[GsiName].data) = 1
  /\ Cardinality(DOMAIN lsis[LsiName].data) = 1

\* the index key `key` satisfies the key condition
KeyMatches(condition, key) ==
  /\ key.pk = condition.partition_key
  /\ condition.sort_key # None => (key.sk # None /\ sk_matches(condition.sort_key, key.sk))

\* C3: a GSI query returns every indexed item whose index key satisfies the key
\* condition, one result per table item, also when several table items have
\* identical index keys: count is the number of matching indexed items.
C3_GsiQueryReturnsAllMatches ==
  \A n \in DOMAIN gsis :
    \A c \in GsiConditions, order \in Orders(DOMAIN gsis[n].data) :
      LET r == query_gsi(Tbl, n, QueryRequest(c, None, QueryOptions(NoLimit, TRUE)), order)
          expected == {e \in DOMAIN gsis[n].data :
                         KeyMatches(c, gsi_extract_index_key(gsis[n], gsis[n].data[e].item))}
      IN  r.status = "Ok" =>
            /\ r.result.count = Cardinality(expected)
            /\ Len(r.result.items) = Cardinality(expected)

\* C4: an LSI query returns every indexed item of the queried partition whose
\* LSI sort key satisfies the condition, one result per table item, also when
\* several items of the partition have the same LSI sort-key value.
C4_LsiQueryReturnsAllMatches ==
  \A n \in DOMAIN lsis :
    \A c \in LsiConditions, order \in Orders(DOMAIN lsis[n].data) :
      LET r == query_lsi(Tbl, n, QueryRequest(c, None, QueryOptions(NoLimit, TRUE)), order)
          expected == {e \in DOMAIN lsis[n].data :
                         KeyMatches(c, PrimaryKey(extract_pk_from_item(lsis[n], lsis[n].data[e]),
                                                  extract_lsi_sort_key(lsis[n], lsis[n].data[e])))}
      IN  r.status = "Ok" =>
            /\ r.result.count = Cardinality(expected)
            /\ Len(r.result.items) = Cardinality(expected)

\* C5: whenever phase-1 validation accepts a write transaction, applying it
\* succeeds and transact_write returns Ok; an error is only ever returned from
\* phase 1, with no item applied and the table untouched.
C5_ValidatedTransactionApplies ==
  \A request \in TxRequests :
    LET r == transact_write(Tbl, request) IN
    /\ (request # <<>> /\ validate_write(Tbl, request, 1, {}) = NoFailure)
         => (r.status = "Ok" /\ r.phase = 2 /\ r.applied = Len(request))
    /\ r.status # "Ok" => (r.phase = 1 /\ r.applied = 0 /\ r.T = Tbl)

\* a transaction of two items was validated and applied
C5_Witness ==
  /\ last.op = "TransactWrite"
  /\ last.status = "Ok"
  /\ Cardinality(DOMAIN storage) = 2
  /\ \E request \in TxRequests :
       /\ Len(request) = 2
       /\ transact_write(Table(TableSchema), request).T.storage = storage

\* C6: key extraction agreement. Every entry of the backend decodes to an item
\* whose primary key, extracted with the table schema, canonicalises to exactly
\* the storage key the entry is stored under.
C6_KeyExtractionAgreement ==
  \A k \in DOMAIN storage :
    LET d == decode_item(storage[k]) IN
    /\ d.ok
    /\ validate_key(d.item, TableSchema) = "Ok"
    /\ extract_key(d.item, TableSchema) # None
    /\ to_storage_key(extract_key(d.item, TableSchema)) = k

\* an update rewrote a stored item and a second item is stored next to it
C6_Witness ==
  /\ last.op = "Update"
  /\ last.status = "Ok"
  /\ Cardinality(DOMAIN storage) = 2

WriteOps == {"Put", "PutIfNotExists", "Update", "Delete"}

\* C7: a put, update or delete that returns an error leaves the table and every
\* secondary index exactly as they were before the call.
C7_FailedWriteChangesNothing ==
  [][(last'.op \in WriteOps /\ last'.status # "Ok")
       => (storage' = storage /\ gsis' = gsis /\ lsis' = lsis)]_vars

\* a write failed on its condition while the table and both indexes held entries
C7_Witness ==
  /\ last.op \in {"Put", "Update", "Delete"}
  /\ last.status \in {"ConditionFailed", "ConditionError"}
  /\ storage # EmptyMap
  /\ GsiName \in DOMAIN gsis /\ gsis[GsiName].data # EmptyMap
  /\ LsiName \in DOMAIN lsis /\ lsis[LsiName].data # EmptyMap

AllKeys == Keys \cup {KBad}

\* what get returns under every key other than `key`
Others(T, key) == [k \in AllKeys \ {key} |-> get(T, k)]

\* C8: a put, update or delete on primary key k never changes the item stored
\* under any other primary key, whether the two share the partition key or hold
\* the characters the storage key uses as separators; distinct primary keys
\* never map to the same storage key.
C8_OtherKeysUntouched ==
  /\ \A k1, k2 \in AllKeys : k1 # k2 => to_storage_key(k1) # to_storage_key(k2)
  /\ \A request \in PutRequests :
       LET key == extract_key(request.item, TableSchema) IN
       key # None => Others(put(Tbl, request).T, key) = Others(Tbl, key)
  /\ \A request \in UpdateRequests :
       Others(update_internal(Tbl, request.key, request.expression, request.condition,
                              "None").T, request.key) = Others(Tbl, request.key)
  /\ \A request \in DeleteRequests :
       Others(delete_internal(Tbl, request.key, request.condition, "None").T, request.key)
         = Others(Tbl, request.key)

\* after a write, the two keys that differ only in where the separator falls
\* both hold an item
C8_Witness ==
  /\ last.op \in WriteOps
  /\ last.status = "Ok"
  /\ get(Tbl, K2).item # NoItem
  /\ get(Tbl, K3).item # NoItem

\* C9: in every table state and for every item, put with if_not_exists succeeds
\* exactly when put with the condition attribute_not_exists(partition key)
\* succeeds, and both leave the same table and index contents.
C9_IfNotExistsIsCondition ==
  \A item \in Items \cup BadItems :
    LET a == put(Tbl, PutRequest(item, None, TRUE, "None"))
        b == put(Tbl, PutRequest(item, AttributeNotExists(attr(TableSchema.partition_key.name)),
                                 FALSE, "None"))
    IN  /\ (a.status = "Ok") <=> (b.status = "Ok")
        /\ a.T = b.T

\* a put with if_not_exists went through into a table that already held an item
C9_Witness ==
  /\ last.op = "PutIfNotExists"
  /\ last.status = "Ok"
  /\ Cardinality(DOMAIN storage) = 2
  /\ GsiName \in DOMAIN gsis
  /\ LsiName \in DOMAIN lsis

\* C10: put with if_not_exists on a key that already holds an item fails with
\* ItemAlreadyExists, not ConditionFailed, and get still returns the item that
\* was stored before.
C10_CollisionIsItemAlreadyExists ==
  \A item \in Items :
    LET key == extract_key(item, TableSchema)
        r == put(Tbl, PutRequest(item, None, TRUE, "None"))
    IN  get(Tbl, key).item # NoItem =>
          /\ r.status = "ItemAlreadyExists"
          /\ get(r.T, key) = get(Tbl, key)
          /\ r.T = Tbl

\* a put with if_not_exists was refused
C10_Witness ==
  /\ last.op = "PutIfNotExists"
  /\ last.status = "ItemAlreadyExists"
  /\ storage # EmptyMap

\* the primary key of the item stored under storage key k of the backend `stored`
StoredKey(stored, k) == extract_key(decode_item(stored[k]).item, TableSchema)

\* the update request reaches the key checks with an item whose key is not the
\* request key: the item exists, the condition passes and the actions succeed
KeyChangingUpdate(T, request) ==
  /\ get(T, request.key).item # NoItem
  /\ CheckCondition(request.condition, get(T, request.key).item) = "Ok"
  /\ execute(get(T, request.key).item, request.expression).ok
  /\ extract_key(execute(get(T, request.key).item, request.expression).item, T.schema)
       # request.key

\* C11: an update whose actions leave the item with a primary key other than
\* the request key, or with a key attribute removed or of another type, fails
\* with UpdateError and writes nothing; a successful update leaves every stored
\* item under its storage key with the primary key it had.
C11_UpdateNeverChangesKey ==
  \A request \in UpdateRequests :
    LET r == update_internal(Tbl, request.key, request.expression, request.condition, "None")
    IN  /\ KeyChangingUpdate(Tbl, request) => (r.status = "UpdateError" /\ r.T = Tbl)
        /\ r.status = "Ok" =>
             /\ DOMAIN r.T.storage = DOMAIN storage
             /\ \A k \in DOMAIN storage : StoredKey(r.T.storage, k) = StoredKey(storage, k)

\* an update was refused with UpdateError in a state where a request that
\* rewrites, removes or retypes a key attribute of a stored item is refused so
C11_Witness ==
  /\ last.op = "Update"
  /\ last.status = "UpdateError"
  /\ \E k \in Keys :
       \A e \in { <<Set(attr(PkName), S(<<"z">>))>>, <<Remove(attr(SkName))>>,
                  <<Set(attr(SkName), N(<<"1">>))>> } :
         /\ KeyChangingUpdate(Tbl, UpdateRequest(k, e, None))
         /\ update_internal(Tbl, k, e, None, "None").status = "UpdateError"

\* Option::unwrap_or_default of the item stored under `key`
CurrentOrEmpty(T, key) ==
  IF get(T, key).item = NoItem THEN EmptyItem ELSE get(T, key).item

\* the status a conditional write must return when nothing else fails, from the
\* value of its condition on `check`
ConditionOutcome(condition, check) ==
  CASE evaluate(condition, check) = "true" -> "Ok"
    [] evaluate(condition, check) = "false" -> "ConditionFailed"
    [] OTHER -> "ConditionError"

\* conditional puts on a well-formed item, conditional deletes and updates
ConditionalPuts ==
  {request \in PutRequests :
     /\ request.condition # None /\ ~request.if_not_exists
     /\ request.item \in Items}
ConditionalDeletes == {request \in DeleteRequests : request.condition # None}
ConditionalUpdates == {request \in UpdateRequests : request.condition # None}

C13_EvaluationErrorIsConditionError ==
  /\ \A request \in ConditionalPuts :
       evaluate(request.condition,
                CurrentOrEmpty(Tbl, extract_key(request.item, TableSchema))) = "TypeMismatch"
         => /\ put(Tbl, request).status = "ConditionError"
            /\ put(Tbl, request).T = Tbl
  /\ \A request \in ConditionalDeletes :
       evaluate(request.condition, CurrentOrEmpty(Tbl, request.key)) = "TypeMismatch"
         => /\ delete_internal(Tbl, request.key, request.condition, "None").status
                 = "ConditionError"
            /\ delete_internal(Tbl, request.key, request.condition, "None").T = Tbl
  /\ \A request \in ConditionalUpdates :
       (/\ get(Tbl, request.key).item # NoItem
        /\ evaluate(request.condition, get(Tbl, request.key).item) = "TypeMismatch")
         => /\ update_internal(Tbl, request.key, request.expression, request.condition,
                               "None").status = "ConditionError"
            /\ update_internal(Tbl, request.key, request.expression, request.condition,
                               "None").T = Tbl

\* a write was refused with ConditionError: the stored item holds a string
\* where the condition compares with a number
C13_Witness ==
  /\ last.op \in {"Put", "Update", "Delete"}
  /\ last.status = "ConditionError"
  /\ \E k \in Keys :
       /\ ItemGet(CurrentOrEmpty(Tbl, k), StName) = S(<<"x">>)
       /\ evaluate(CondStLe, CurrentOrEmpty(Tbl, k)) = "TypeMismatch"
       /\ delete_internal(Tbl, k, CondStLe, "None").status = "ConditionError"

\* the call compares an attribute the item holds with a value of another type
CrossTypeCompare ==
  /\ call.f = "evaluate"
  /\ call.condition.t = "Compare"
  /\ resolve(call.condition.path, call.item) # None
  /\ resolve(call.condition.path, call.item).t # call.condition.value.t

\* C14 as stated: a Compare whose attribute value and operand are of different
\* types evaluates to TypeMismatch for every operator, Eq and Ne included.
C14_CrossTypeCompareIsError ==
  (CrossTypeCompare /\ ret.f = "returned") => ret.val = "TypeMismatch"

\* C14, amended: a Compare whose attribute value and operand are of different
\* types evaluates to TypeMismatch for Lt, Le, Gt and Ge; for Eq it evaluates to
\* false and for Ne to true.
C14_CrossTypeOrderingIsError ==
  (CrossTypeCompare /\ ret.f = "returned") =>
    CASE call.condition.op = "Eq" -> ret.val = "false"
      [] call.condition.op = "Ne" -> ret.val = "true"
      [] OTHER -> ret.val = "TypeMismatch"

\* a string attribute was compared with a number by an ordering operator and
\* the evaluation returned
C14_Witness ==
  /\ CrossTypeCompare
  /\ resolve(call.condition.path, call.item).t = "S"
  /\ call.condition.value.t = "N"
  /\ call.condition.op = "Lt"
  /\ ret.f = "returned"
  /\ ret.val = "TypeMismatch"

\* item i (1-based) of the request fails phase-1 validation in table T: its key
\* cannot be extracted, an earlier item targets the same key, or the item's
\* own validation fails
FailsValidation(T, items, i) ==
  \/ tx_extract_key(items[i], T.schema) = None
  \/ \E j \in 1..(i - 1) :
       /\ tx_extract_key(items[j], T.schema) # None
       /\ to_storage_key(tx_extract_key(items[j], T.schema))
            = to_storage_key(tx_extract_key(items[i], T.schema))
  \/ validate_write_item(T, items[i], tx_extract_key(items[i], T.schema), i - 1) # NoFailure

\* the position (0-based) of the first item that fails validation, -1 if none
FirstInvalid(T, items) ==
  IF \E i \in 1..Len(items) : FailsValidation(T, items, i)
  THEN (CHOOSE i \in 1..Len(items) :
          /\ FailsValidation(T, items, i)
          /\ \A j \in 1..(i - 1) : ~FailsValidation(T, items, j)) - 1
  ELSE -1

\* C15: when an item of a write transaction fails phase-1 validation, the error
\* is TransactionCanceled with exactly one cancel reason, whose index is the
\* position of the first item, in request order, that fails validation; a
\* transaction is cancelled only so.
C15_SingleReasonFirstFailure ==
  \A request \in TxRequests :
    LET r == transact_write(Tbl, request) IN
    /\ FirstInvalid(Tbl, request) # -1 =>
         /\ r.status = "TransactionCanceled"
         /\ Len(r.reasons) = 1
         /\ r.reasons[1].index = FirstInvalid(Tbl, request)
    /\ r.status = "TransactionCanceled" => FirstInvalid(Tbl, request) # -1

\* a transaction was cancelled in a state where one request has two items that
\* both fail validation and another fails only on its second item
C15_Witness ==
  /\ last.op = "TransactWrite"
  /\ last.status = "TransactionCanceled"
  /\ \E request \in TxRequests :
       /\ Len(request) = 2
       /\ FailsValidation(Tbl, request, 1) /\ FailsValidation(Tbl, request, 2)
       /\ transact_write(Tbl, request).reasons[1].index = 0
  /\ \E request \in TxRequests :
       /\ Len(request) = 2
       /\ ~FailsValidation(Tbl, request, 1) /\ FailsValidation(Tbl, request, 2)
       /\ transact_write(Tbl, request).reasons[1].index = 1

\* items i < j of the request target the same primary key
SameTarget(T, items, i, j) ==
  /\ i < j
  /\ tx_extract_key(items[i], T.schema) # None
  /\ tx_extract_key(items[i], T.schema) = tx_extract_key(items[j], T.schema)

\* the requests with a repeated target at j whose items before j all pass
DuplicateTargets(T, j) ==
  {request \in TxRequests :
     /\ j \in 1..Len(request)
     /\ \E i \in 1..(j - 1) : SameTarget(T, request, i, j)
     /\ \A i \in 1..(j - 1) : ~FailsValidation(T, request, i)}

\* C16: a write transaction with two items of any kind on the same primary key
\* is cancelled with DuplicateItem whose index is the position of the later
\* item, when no earlier item fails validation, and the table is left as it was.
C16_DuplicateTargetCancelled ==
  \A j \in 1..MaxTx : \A request \in DuplicateTargets(Tbl, j) :
    LET r == transact_write(Tbl, request) IN
    /\ r.status = "TransactionCanceled"
    /\ r.reasons = <<Failure("DuplicateItem", j - 1)>>
    /\ r.T = Tbl
    /\ r.applied = 0

\* a transaction was cancelled in a state where every kind of item occurs as
\* the later item of a repeated target, after an item of another kind, and one
\* such later item would also fail its own validation
C16_Witness ==
  /\ last.op = "TransactWrite"
  /\ last.status = "TransactionCanceled"
  /\ \A kind \in {"Put", "Update", "Delete", "ConditionCheck"} :
       \E request \in DuplicateTargets(Tbl, 2) :
         request[2].t = kind /\ request[1].t # kind
  /\ \E request \in DuplicateTargets(Tbl, 2) :
       validate_write_item(Tbl, request[2], tx_extract_key(request[2], Tbl.schema), 1)
         # NoFailure

\* the keys a request targets with a Put, an Update or a Delete
WrittenKeys(T, request) ==
  {tx_extract_key(request[i], T.schema) :
     i \in {j \in 1..Len(request) : request[j].t # "ConditionCheck"}}

\* what item i of a committed request leaves under its key, given the table T
\* before the transaction
Committed(T, item) ==
  CASE item.t = "Put" -> item.item
    [] item.t = "Update" -> execute(get(T, item.key).item, item.expression).item
    [] item.t = "Delete" -> NoItem
    [] item.t = "ConditionCheck" -> get(T, item.key).item

\* the requests that transact_write commits on T
CommittedRequests(T) == {request \in TxRequests : transact_write(T, request).status = "Ok"}

\* C17: after a successful transact_write every Put key holds the put item,
\* every Update key the result of its expression on the item stored before the
\* transaction, every Delete key no item, and every key that no Put, Update or
\* Delete targets (ConditionCheck keys included) holds what it held before.
C17_CommittedTransactionEffects ==
  \A request \in CommittedRequests(Tbl) :
    LET r == transact_write(Tbl, request) IN
    /\ \A i \in 1..Len(request) :
         get(r.T, tx_extract_key(request[i], TableSchema)).item = Committed(Tbl, request[i])
    /\ \A k \in AllKeys \ WrittenKeys(Tbl, request) : get(r.T, k) = get(Tbl, k)
    /\ \A k \in DOMAIN r.T.storage \cup DOMAIN storage :
         k \notin {to_storage_key(key) : key \in WrittenKeys(Tbl, request)}
           => /\ k \in DOMAIN r.T.storage /\ k \in DOMAIN storage
              /\ r.T.storage[k] = storage[k]

\* a transaction committed into a state where requests of two items commit
\* with each kind of item next to an item of another kind, one of them an
\* Update that changes its item and one a Delete of a stored item
C17_Witness ==
  /\ last.op = "TransactWrite"
  /\ last.status = "Ok"
  /\ \A kind \in {"Put", "Update", "Delete", "ConditionCheck"} :
       \E request \in CommittedRequests(Tbl) :
         Len(request) = 2 /\ request[1].t = kind /\ request[2].t # kind
  /\ \E request \in CommittedRequests(Tbl) : \E i \in 1..Len(request) :
       /\ request[i].t = "Update"
       /\ Committed(Tbl, request[i]) # get(Tbl, request[i].key).item
  /\ \E request \in CommittedRequests(Tbl) : \E i \in 1..Len(request) :
       /\ request[i].t = "Delete"
       /\ get(Tbl, request[i].key).item # NoItem

\* ascending order of sort-key values as the specification words it: numeric
\* for N, lexicographic for S and B
NumericLess(a, b) ==
  ParseF64(a).num * Pow10(ParseF64(b).scale) < ParseF64(b).num * Pow10(ParseF64(a).scale)

NumericEqual(a, b) ==
  ParseF64(a).num * Pow10(ParseF64(b).scale) = ParseF64(b).num * Pow10(ParseF64(a).scale)

SortKeyLess(a, b) ==
  CASE a.t = "N" -> NumericLess(a.v, b.v)
    [] a.t = "S" -> StrLess(a.v, b.v)
    [] a.t = "B" -> BytesLess(a.v, b.v)

SortKeyEqual(a, b) == IF a.t = "N" THEN NumericEqual(a.v, b.v) ELSE a.v = b.v

\* key k1 comes before key k2: smaller sort key, or equal sort keys and the
\* smaller canonical storage-key string
KeyBefore(k1, k2) ==
  \/ SortKeyLess(k1.sk, k2.sk)
  \/ /\ SortKeyEqual(k1.sk, k2.sk)
     /\ StrLess(to_storage_key(k1), to_storage_key(k2))

ItemKey(item) == PrimaryKey(item[PkName], item[SkName])

\* the pairs of the call that satisfy its key condition
MatchingPairs ==
  {call.items[i] : i \in {j \in 1..Len(call.items) :
      /\ call.items[j].pk.pk = call.condition.partition_key
      /\ call.condition.sort_key # None
           => sk_matches(call.condition.sort_key, call.items[j].pk.sk)}}

IterationOrders(n) == {p \in [1..n -> 1..n] : \A i, j \in 1..n : i # j => p[i] # p[j]}

ForwardUnlimited ==
  /\ ret.f = "returned"
  /\ call.options.scan_forward
  /\ call.options.limit = NoLimit

\* C18: a forward query returns exactly the matching items, in ascending
\* sort-key order (numeric for N, lexicographic for S and B), items of equal
\* sort key in the order of their storage-key strings; that order is total on
\* the matching items and the result is the same for every iteration order of
\* the stored items.
C18_ForwardOrderAscending ==
  ForwardUnlimited =>
    /\ Len(ret.val.items) = Cardinality(MatchingPairs)
    /\ {ret.val.items[i] : i \in 1..Len(ret.val.items)} = {p.item : p \in MatchingPairs}
    /\ \A i \in 1..(Len(ret.val.items) - 1) :
         KeyBefore(ItemKey(ret.val.items[i]), ItemKey(ret.val.items[i + 1]))
    /\ \A p, q \in MatchingPairs : p # q => (KeyBefore(p.pk, q.pk) # KeyBefore(q.pk, p.pk))
    /\ \A p \in IterationOrders(Len(call.items)) :
         query_execute([i \in 1..Len(call.items) |-> call.items[p[i]]],
                       call.condition, call.options).items = ret.val.items

\* a forward query returned three N-keyed items that were stored in descending
\* order: 9 and 9.0, equal as numbers, in the order of their storage keys,
\* then 10, which is smaller than both as a string
C18_Witness ==
  /\ ForwardUnlimited
  /\ [i \in 1..Len(call.items) |-> call.items[i].pk.sk]
       = <<N(<<"1", "0">>), N(<<"9", ".", "0">>), N(<<"9">>)>>
  /\ [i \in 1..Len(ret.val.items) |-> ret.val.items[i][SkName]]
       = <<N(<<"9">>), N(<<"9", ".", "0">>), N(<<"1", "0">>)>>

\* the result of the same call made with scan_forward = true and no limit
ForwardResult ==
  query_execute(call.items, call.condition, QueryOptions(NoLimit, TRUE)).items

ReverseUnlimited ==
  /\ ret.f = "returned"
  /\ ~call.options.scan_forward
  /\ call.options.limit = NoLimit

\* C19: on the same stored items and key condition, without limit, the items
\* returned with scan_forward = false are those returned with scan_forward =
\* true, in exactly the opposite order.
C19_ReverseIsReversedForward ==
  ReverseUnlimited =>
    /\ Len(ret.val.items) = Len(ForwardResult)
    /\ \A i \in 1..Len(ForwardResult) :
         ret.val.items[i] = ForwardResult[Len(ForwardResult) + 1 - i]

\* a reverse query without limit returned three items, so that the reversed
\* sequence differs from the forward one
C19_Witness ==
  /\ ReverseUnlimited
  /\ Len(ret.val.items) = 3
  /\ ret.val.items # ForwardResult
  /\ ret.val.items[1] = ForwardResult[3]

\* the number of items a query with a limit returns
LimitedLen == IF call.options.limit < Len(ForwardResult)
              THEN call.options.limit ELSE Len(ForwardResult)

Limited ==
  /\ ret.f = "returned"
  /\ call.options.limit # NoLimit

\* C20: with limit n a query returns the first n items of the ascending
\* sequence when scanning forward and the first n items of the reversed
\* sequence (the n largest keys, descending) when scanning in reverse, and all
\* matching items when fewer than n match: the limit cuts the sequence after
\* it has been sorted and reversed.
C20_LimitAfterSortAndReverse ==
  Limited =>
    /\ Len(ret.val.items) = LimitedLen
    /\ ret.val.count = LimitedLen
    /\ \A i \in 1..LimitedLen :
         ret.val.items[i] = IF call.options.scan_forward THEN ForwardResult[i]
                            ELSE ForwardResult[Len(ForwardResult) + 1 - i]

\* a reverse query with limit 2 returned the two largest of three matching
\* items, the largest first
C20_Witness ==
  /\ Limited
  /\ ~call.options.scan_forward
  /\ call.options.limit = 2
  /\ Len(ForwardResult) = 3
  /\ ret.val.items = <<ForwardResult[3], ForwardResult[2]>>

\* the value holds an empty set, at any depth
RECURSIVE HoldsEmptySet(_)
HoldsEmptySet(value) ==
  CASE value.t = "Ss" -> value.v = {}
    [] value.t = "M" -> \E n \in DOMAIN value.v : HoldsEmptySet(value.v[n])
    [] value.t = "L" -> \E i \in 1..Len(value.v) : HoldsEmptySet(value.v[i])
    [] OTHER -> FALSE

\* C21: after any sequence of put and update operations whose input values
\* hold no empty set, no stored item has an empty set attribute.
C21_NoEmptySetStored ==
  \A k \in DOMAIN storage : ~HoldsEmptySet(M(decode_item(storage[k]).item))

\* the operation fails when made alone on table T
FailsAlone(T, op) ==
  IF op.t = "Put" THEN put_item(T, op.item).status # "Ok"
  ELSE delete_item(T, op.key).status # "Ok"

Occurrences(seq, x) == Cardinality({i \in 1..Len(seq) : seq[i] = x})

\* what key k holds after the operations of the request at the positions
\* applied: nothing when an applied Delete names it, else the item of the last
\* applied Put on it, else what it held
AfterBatch(T, request, applied, k) ==
  IF \E i \in applied : request[i].t = "Delete" /\ request[i].key = k
  THEN NoItem
  ELSE IF \E i \in applied :
            request[i].t = "Put" /\ extract_key(request[i].item, T.schema) = k
  THEN request[CHOOSE i \in applied :
                 /\ request[i].t = "Put" /\ extract_key(request[i].item, T.schema) = k
                 /\ \A j \in applied :
                      (request[j].t = "Put" /\ extract_key(request[j].item, T.schema) = k)
                        => j <= i].item
  ELSE get(T, k).item

\* the result r of batch_write on the request accounts for every operation,
\* failing being the operations that fail when made alone
BatchAccounted(T, request, r, failing, applied) ==
  /\ r.processed_count + Len(r.unprocessed_items) = Len(request)
  /\ r.processed_count = Cardinality(applied)
  /\ \A op \in BatchItems :
       Occurrences(r.unprocessed_items, op)
         = IF op \in failing THEN Occurrences(request, op) ELSE 0
  /\ \A k \in AllKeys : get(r.T, k).item = AfterBatch(T, request, applied, k)

\* C22: batch_write attempts every operation of the request on its own and
\* accounts for it exactly once: an operation that would succeed alone is
\* applied and counted in processed_count, one that would fail alone is
\* returned in unprocessed_items, and neither keeps the others from being
\* applied; the two numbers add up to the length of the request.
C22_BatchAccountsForEveryOperation ==
  LET failing == {op \in BatchItems : FailsAlone(Tbl, op)} IN
  \A request \in BatchRequests :
    BatchAccounted(Tbl, request, batch_write(Tbl, request), failing,
                   {i \in 1..Len(request) : request[i] \notin failing})

\* a batch was written into a state holding K1, where a request whose first
\* operation fails has its second applied, and a request that deletes K1 and
\* then puts it leaves K1 empty, both operations counted
C22_Witness ==
  /\ last.op = "BatchWrite"
  /\ get(Tbl, K1).item # NoItem
  /\ get(Tbl, K2).item = NoItem
  /\ LET r == batch_write(Tbl, <<BatchPut(NoSkItem), BatchPut(I2x)>>) IN
       /\ r.processed_count = 1
       /\ r.unprocessed_items = <<BatchPut(NoSkItem)>>
       /\ get(r.T, K2).item = I2x
  /\ LET r == batch_write(Tbl, <<BatchDelete(K1), BatchPut(I1x)>>) IN
       /\ r.processed_count = 2
       /\ r.unprocessed_items = <<>>
       /\ get(r.T, K1).item = NoItem

\* the first n actions applied one after the other, each to the item the
\* one before it produced: [ok, item]
RECURSIVE AppliedInOrder(_, _, _)
AppliedInOrder(item, actions, n) ==
  IF n = 0 THEN UpdOk(item)
  ELSE IF AppliedInOrder(item, actions, n - 1).ok
       THEN apply_action(AppliedInOrder(item, actions, n - 1).item, actions[n])
       ELSE AppliedInOrder(item, actions, n - 1)

\* the outcome r of an update of key k with the actions, on a table where k
\* holds old
UpdatedInOrder(k, actions, old, r) ==
  r.status = "Ok" =>
    /\ AppliedInOrder(old, actions, Len(actions)).ok
    /\ get(r.T, k).item = AppliedInOrder(old, actions, Len(actions)).item

\* C23: the actions of an update expression are applied in list order, each to
\* the result of the ones before it, and after a successful update the key
\* holds the result of applying all of them in that order to the item stored
\* before.
C23_ActionsAppliedInListOrder ==
  \A k \in Keys : \A expression \in OrderedExprs :
    UpdatedInOrder(k, expression, get(Tbl, k).item,
                   update_internal(Tbl, k, expression, None, "None"))

\* an update succeeded into a state where K1 holds a numeric st, so that Set
\* then Add and Add then Set, and Remove then SetIfNotExists and
\* SetIfNotExists then Remove, succeed with different stored items
C23_Witness ==
  /\ last.op = "Update"
  /\ last.status = "Ok"
  /\ ItemGet(get(Tbl, K1).item, StName) = N(<<"1">>)
  /\ ItemGet(get(update_internal(Tbl, K1, <<Set(attr(StName), N(<<"1">>)),
                                           Add(attr(StName), N(<<"1">>))>>,
                                 None, "None").T, K1).item, StName) = N(<<"2">>)
  /\ ItemGet(get(update_internal(Tbl, K1, <<Add(attr(StName), N(<<"1">>)),
                                           Set(attr(StName), N(<<"1">>))>>,
                                 None, "None").T, K1).item, StName) = N(<<"1">>)
  /\ ItemGet(get(update_internal(Tbl, K1, <<Remove(attr(StName)),
                                           SetIfNotExists(attr(StName), S(<<"x">>))>>,
                                 None, "None").T, K1).item, StName) = S(<<"x">>)
  /\ ItemGet(get(update_internal(Tbl, K1, <<SetIfNotExists(attr(StName), S(<<"x">>)),
                                           Remove(attr(StName))>>,
                                 None, "None").T, K1).item, StName) = None

\* list l with value at index idx (0-based) in place of the element there
Replaced(l, idx, value, new) ==
  /\ Len(new) = Len(l)
  /\ new[idx + 1] = value
  /\ \A j \in 1..Len(l) : j # idx + 1 => new[j] = l[j]

\* the outcome r of the update Set(parent[idx], value) of key k, when parent
\* resolves to the list l in the stored item
SetAtIndex(k, parent, idx, value, l, r) ==
  /\ idx < Len(l) =>
       /\ r.status = "Ok"
       /\ resolve(parent, get(r.T, k).item).t = "L"
       /\ Replaced(l, idx, value, resolve(parent, get(r.T, k).item).v)
  /\ idx = Len(l) =>
       /\ r.status = "Ok"
       /\ resolve(parent, get(r.T, k).item) = L(Append(l, value))
  /\ idx > Len(l) =>
       /\ r.status = "UpdateError"
       /\ r.T = Tbl

\* C24: Set with a path ending in list index i, on a list of length len,
\* replaces element i when i < len, appends the value when i = len, and fails
\* with UpdateError, the list left as it was, when i > len.
C24_SetListIndex ==
  \A parent \in ListParents : \A idx \in 0..(MaxList + 1) : \A value \in ListValues :
    resolve(parent, get(Tbl, K1).item).t = "L" =>
      SetAtIndex(K1, parent, idx, value, resolve(parent, get(Tbl, K1).item).v,
                 update_internal(Tbl, K1, <<Set(parent \o <<Index(idx)>>, value)>>,
                                 None, "None"))

\* an update stored a list of two elements in st whose first element is a
\* list of one: indexes below, at and past the end occur for both lists
C24_Witness ==
  /\ last.op = "Update"
  /\ last.status = "Ok"
  /\ resolve(<<Key(StName)>>, get(Tbl, K1).item).t = "L"
  /\ Len(resolve(<<Key(StName)>>, get(Tbl, K1).item).v) = 2
  /\ resolve(<<Key(StName), Index(0)>>, get(Tbl, K1).item).t = "L"
  /\ Len(resolve(<<Key(StName), Index(0)>>, get(Tbl, K1).item).v) = 1

\* C25: Or(l, r) evaluates to true whenever l evaluates to true, and And(l, r)
\* to false whenever l evaluates to false, whatever r evaluates to, a
\* TypeMismatch included: r is not evaluated.
C25_ShortCircuit ==
  (call.f = "evaluate" /\ ret.f = "returned") =>
    /\ (call.condition.t = "Or" /\ evaluate(call.condition.left, call.item) = "true")
         => ret.val = "true"
    /\ (call.condition.t = "And" /\ evaluate(call.condition.left, call.item) = "false")
         => ret.val = "false"

\* a disjunction whose left operand is true and whose right operand alone
\* raises TypeMismatch was evaluated, and gave true
C25_Witness ==
  /\ call.f = "evaluate"
  /\ call.condition.t = "Or"
  /\ evaluate(call.condition.left, call.item) = "true"
  /\ evaluate(call.condition.right, call.item) = "TypeMismatch"
  /\ ret.f = "returned"
  /\ ret.val = "true"

\* the call compares an attribute that the item does not hold
AbsentCompare ==
  /\ call.f = "evaluate"
  /\ call.condition.t = "Compare"
  /\ resolve(call.condition.path, call.item) = None

\* C26: for a path absent in the item, Compare with Ne evaluates to true and
\* Compare with Eq, Lt, Le, Gt or Ge to false, whatever the operand; no error
\* is raised.
C26_AbsentPathCompare ==
  (AbsentCompare /\ ret.f = "returned") =>
    /\ call.condition.op = "Ne" => ret.val = "true"
    /\ call.condition.op \in {"Eq", "Lt", "Le", "Gt", "Ge"} => ret.val = "false"
    /\ ret.val # "TypeMismatch"

\* an absent attribute was compared for inequality with a map and the
\* evaluation gave true
C26_Witness ==
  /\ AbsentCompare
  /\ call.condition.op = "Ne"
  /\ call.condition.value.t = "M"
  /\ ret.f = "returned"
  /\ ret.val = "true"

\* C27: a query's scanned_count is the number of (key, item) pairs fed to the
\* executor, matching the key condition or not, and its count is the number
\* of items it returns.
C27_ScannedAndCount ==
  (call.f = "execute" /\ ret.f = "returned") =>
    /\ ret.val.scanned_count = Len(call.items)
    /\ ret.val.count = Len(ret.val.items)

\* a query without limit was fed three items and returned one: two items
\* were inspected and did not match
C27_Witness ==
  /\ call.f = "execute"
  /\ call.options.limit = NoLimit
  /\ Len(call.items) = 3
  /\ ret.f = "returned"
  /\ ret.val.scanned_count = 3
  /\ ret.val.count = 1
  /\ Len(ret.val.items) = 1

\* filters and limits of the scans: no filter, a filter some items satisfy, a
\* filter that raises TypeMismatch on a string st, and every limit up to
\* MaxLimit
ScanFilters ==
  {None, Compare(attr(StName), "Eq", S(<<"x">>)), CondStLe, AttributeExists(attr(StName))}

ScanLimits == {NoLimit} \cup 0..MaxLimit

\* the stored items that satisfy the filter
Satisfying(filter) ==
  {item \in ScanOf(storage) : filter = None \/ evaluate(filter, item) = "true"}

\* the result r of a scan with the filter and the limit
ScanReturns(filter, limit, r) ==
  /\ r.status = "Ok"
  /\ \A i \in 1..Len(r.items) : r.items[i] \in Satisfying(filter)
  /\ limit # NoLimit => Len(r.items) <= limit
  /\ limit = NoLimit =>
       /\ {r.items[i] : i \in 1..Len(r.items)} = Satisfying(filter)
       /\ \A i, j \in 1..Len(r.items) : i # j => r.items[i] # r.items[j]

\* C28: scan with filter f and limit n returns at most n items, each stored
\* in the table and satisfying f; without a limit it returns exactly the
\* stored items satisfying f (every stored item without a filter), each once.
C28_ScanFilterAndLimit ==
  \A filter \in ScanFilters, limit \in ScanLimits, order \in Orders(DOMAIN storage) :
    ScanReturns(filter, limit, scan(Tbl, ScanRequest(filter, limit), order))

\* the table holds two items, one with a string st on which the filter CondStLe
\* raises an error and one that satisfies it: the scan with that filter returns
\* one item, the scan with limit 1 and no filter one of the two
C28_Witness ==
  /\ Cardinality(DOMAIN storage) = 2
  /\ \E item \in ScanOf(storage) : evaluate(CondStLe, item) = "TypeMismatch"
  /\ \E item \in ScanOf(storage) : evaluate(CondStLe, item) = "true"
  /\ \A order \in Orders(DOMAIN storage) :
       /\ Len(scan(Tbl, ScanRequest(CondStLe, NoLimit), order).items) = 1
       /\ Len(scan(Tbl, ScanRequest(None, 1), order).items) = 1
       /\ Len(scan(Tbl, ScanRequest(None, NoLimit), order).items) = 2

\* the requests of transact_get: up to MaxTx keys, repeated or not
GetRequests == SeqsUpTo(Keys, MaxTx)

\* the stored items whose primary key is key
StoredUnder(key) == {item \in ScanOf(storage) : extract_key(item, TableSchema) = key}

\* entry is the item stored under key, or no item if there is none
EntryFor(key, entry) ==
  IF StoredUnder(key) = {} THEN entry = NoItem ELSE entry \in StoredUnder(key)

\* C29: transact_get returns a list with the length and the order of the
\* request, entry i being the item stored under the i-th key, or none if
\* nothing is stored there; a missing item does not make the call fail.
C29_TransactGetPositional ==
  \A request \in GetRequests :
    /\ transact_get(Tbl, request).status = "Ok"
    /\ Len(transact_get(Tbl, request).items) = Len(request)
    /\ \A i \in 1..Len(request) :
         EntryFor(request[i], transact_get(Tbl, request).items[i])

\* an item is stored under K1 and none under K2: the request (K2, K1) returns
\* no item first and the item of K1 second
C29_Witness ==
  /\ StoredUnder(K1) # {}
  /\ StoredUnder(K2) = {}
  /\ transact_get(Tbl, <<K2, K1>>).status = "Ok"
  /\ transact_get(Tbl, <<K2, K1>>).items[1] = NoItem
  /\ transact_get(Tbl, <<K2, K1>>).items[2] \in StoredUnder(K1)

ReturnValues == {"None", "AllOld", "AllNew"}

\* the result r of an unconditional put of item under key k, old being what
\* the table held under k (NoItem: nothing)
PutReplaces(item, k, return_value, old, r) ==
  /\ r.status = "Ok"
  /\ r.was_update = (old # NoItem)
  /\ return_value = "AllOld" => r.attributes = old
  /\ old # NoItem => Cardinality(DOMAIN r.T.storage) = Cardinality(DOMAIN storage)
  /\ old = NoItem => Cardinality(DOMAIN r.T.storage) = Cardinality(DOMAIN storage) + 1
  /\ get(r.T, k).status = "Ok"
  /\ get(r.T, k).item = item

\* C30: a put on a key that holds an item replaces it, reports was_update
\* and, with return value AllOld, returns the item stored before; a put on
\* an unused key reports no update and returns no old item; in both cases a
\* get that follows returns the item put.
C30_PutReplacesAndReportsOld ==
  \A item \in Items, return_value \in ReturnValues :
    PutReplaces(item, extract_key(item, TableSchema), return_value,
                get(Tbl, extract_key(item, TableSchema)).item,
                put(Tbl, PutRequest(item, None, FALSE, return_value)))

\* after a put K1 holds the item with st = "x" and K2 holds nothing: the put
\* of another item under K1 with AllOld replaces it and returns it, the
\* put under K2 is not an update and returns nothing
C30_Witness ==
  /\ last.op = "Put"
  /\ last.status = "Ok"
  /\ get(Tbl, K1).item = I1x
  /\ get(Tbl, K2).item = NoItem
  /\ put(Tbl, PutRequest(MkItem(K1, N(<<"1">>)), None, FALSE, "AllOld")).was_update
  /\ put(Tbl, PutRequest(MkItem(K1, N(<<"1">>)), None, FALSE, "AllOld")).attributes = I1x
  /\ ~put(Tbl, PutRequest(MkItem(K2, None), None, FALSE, "AllOld")).was_update
  /\ put(Tbl, PutRequest(MkItem(K2, None), None, FALSE, "AllOld")).attributes = NoItem

\* conditions of the updates on a missing key: none, one that the empty item
\* satisfies, one that it fails and one that compares an absent attribute
MissingKeyConditions ==
  {None, CondNotExists, AttributeExists(attr(StName)), CondStLe}

\* C31: update on a key that holds no item fails with ItemNotFound and
\* creates no item, whatever the update expression and the condition.
C31_UpdateMissingKeyFails ==
  \A k \in Keys, expression \in UpdateExprs \cup OrderedExprs,
     condition \in MissingKeyConditions :
    get(Tbl, k).item = NoItem =>
      /\ update_internal(Tbl, k, expression, condition, "None").status = "ItemNotFound"
      /\ update_internal(Tbl, k, expression, condition, "None").T = Tbl

\* an update of a key that holds nothing was rejected and the key still holds
\* nothing, while another key holds an item
C31_Witness ==
  /\ last.op = "Update"
  /\ last.status = "ItemNotFound"
  /\ get(Tbl, K1).item = NoItem
  /\ get(Tbl, K2).item # NoItem
  /\ update_internal(Tbl, K1, <<Set(attr(StName), N(<<"1">>))>>, CondNotExists, "None").status
       = "ItemNotFound"

\* the names of the key attributes of a schema
SchemaNames(schema) ==
  {schema.partition_key.name}
    \cup (IF schema.sort_key # NoAttr THEN {schema.sort_key.name} ELSE {})

\* the attribute name is kept by the projection of an index with that schema
Kept(projection, index_schema, name) ==
  \/ projection.t = "All"
  \/ name \in SchemaNames(TableSchema) \cup SchemaNames(index_schema)
  \/ projection.t = "Include" /\ name \in projection.attrs

\* projected is item cut down to the attributes the projection keeps
ProjectionOf(projection, index_schema, item, projected) ==
  /\ DOMAIN projected = {name \in DOMAIN item : Kept(projection, index_schema, name)}
  /\ \A name \in DOMAIN projected : projected[name] = item[name]

\* the table item whose storage key is tk
StoredItem(tk) == decode_item(storage[tk]).item

\* every entry of a GSI is the projection of the table item it is kept for
GsiEntriesProjected(gsi) ==
  \A tk \in DOMAIN gsi.table_key_index :
    /\ tk \in DOMAIN storage
    /\ gsi.table_key_index[tk] \in DOMAIN gsi.data
    /\ ProjectionOf(gsi.projection, gsi.schema, StoredItem(tk),
                    gsi.data[gsi.table_key_index[tk]].item)

\* every entry of an LSI is the projection of the table item it is kept for
LsiEntriesProjected(lsi) ==
  \A tk \in DOMAIN lsi.table_key_index :
    /\ tk \in DOMAIN storage
    /\ lsi.table_key_index[tk] \in DOMAIN lsi.data
    /\ ProjectionOf(lsi.projection, lsi_schema(lsi), StoredItem(tk),
                    lsi.data[lsi.table_key_index[tk]])

\* C32: the item an index stores for a table item holds, for KeysOnly, exactly
\* the item's attributes named by the table key schema or the index key
\* schema; for Include(set), those and the item's attributes named in the
\* set; for All, every attribute of the item.
C32_IndexStoresProjection ==
  /\ \A n \in DOMAIN gsis : GsiEntriesProjected(gsis[n])
  /\ \A n \in DOMAIN lsis : LsiEntriesProjected(lsis[n])

\* the GSI projects KeysOnly and the LSI includes v; both hold an entry, the
\* GSI's without v and the LSI's with it
C32_Witness ==
  /\ GsiName \in DOMAIN gsis
  /\ LsiName \in DOMAIN lsis
  /\ gsis[GsiName].projection = ProjKeysOnly
  /\ lsis[LsiName].projection = ProjInclude({VName})
  /\ \E sk \in DOMAIN gsis[GsiName].data :
       DOMAIN gsis[GsiName].data[sk].item = {PkName, SkName, StName}
  /\ \E sk \in DOMAIN lsis[LsiName].data :
       DOMAIN lsis[LsiName].data[sk] = {PkName, SkName, StName, VName}

\* C33: decode(encode(v)) = v for every attribute value v: the ten variants,
\* nested maps and lists, empty strings and collections, lengths on both
\* sides of the one-byte / four-byte boundary of the length prefix.
C33_CodecRoundTrip ==
  (call.f = "roundtrip" /\ ret.f = "returned") =>
    /\ ret.val.ok
    /\ ret.val.val = call.value
    /\ ret.val.pos = Len(encode(call.value)) + 1

\* a set of LenBoundary strings was encoded with the four-byte length and
\* decoded
C33_Witness ==
  /\ call.f = "roundtrip"
  /\ call.value.t = "Ss"
  /\ Cardinality(call.value.v) = LenBoundary
  /\ ret.f = "returned"
  /\ ret.val.ok
  /\ encode(call.value)[2] = 128
  /\ encode(call.value)[5] = LenBoundary

\* the data map and the reverse map of an index have as many entries, and
\* every reverse entry points at a data entry that no other table key points at
ReverseConsistent(index) ==
  /\ Cardinality(DOMAIN index.data) = Cardinality(DOMAIN index.table_key_index)
  /\ \A tk \in DOMAIN index.table_key_index :
       /\ index.table_key_index[tk] \in DOMAIN index.data
       /\ \A other \in DOMAIN index.table_key_index :
            index.table_key_index[other] = index.table_key_index[tk] => other = tk

\* the entry a GSI keeps for each table key holds the key and the projection
\* of the item last put for it
GsiHoldsItems(gsi) ==
  \A tk \in DOMAIN gsi.table_key_index :
    /\ tk \in DOMAIN storage
    /\ to_storage_key(gsi.data[gsi.table_key_index[tk]].key) = tk
    /\ gsi.data[gsi.table_key_index[tk]].item
         = project_item(gsi.projection, StoredItem(tk), gsi.table_schema, gsi.schema)

\* the entry an LSI keeps for each table key holds the projection of the item
\* last put for it
LsiHoldsItems(lsi) ==
  \A tk \in DOMAIN lsi.table_key_index :
    /\ tk \in DOMAIN storage
    /\ lsi.data[lsi.table_key_index[tk]]
         = project_item(lsi.projection, StoredItem(tk), lsi.table_schema, lsi_schema(lsi))

\* C34: after any sequence of put, delete and clear on a GSI or an LSI, its
\* data map and its reverse map have the same number of entries, and every
\* reverse entry points at an existing data entry that holds that table key's
\* item and that no other table key points at.
C34_ReverseIndexConsistent ==
  /\ \A n \in DOMAIN gsis : ReverseConsistent(gsis[n]) /\ GsiHoldsItems(gsis[n])
  /\ \A n \in DOMAIN lsis : ReverseConsistent(lsis[n]) /\ LsiHoldsItems(lsis[n])

\* after a delete both indexes hold one entry, for a table key whose item
\* carries the key attributes of another table key
C34_Witness ==
  /\ last.op = "IndexDelete"
  /\ Cardinality(DOMAIN gsis[GsiName].data) = 1
  /\ Cardinality(DOMAIN lsis[LsiName].data) = 1
  /\ \E tk \in DOMAIN gsis[GsiName].table_key_index :
       to_storage_key(extract_key(StoredItem(tk), TableSchema)) # tk

\* the requests whose filter or condition is CondStLe, which raises
\* TypeMismatch on an item with a string st
ErrsOn(item) == evaluate(CondStLe, item) = "TypeMismatch"

FilteredScan(order) == scan(Tbl, ScanRequest(CondStLe, NoLimit), order)

FilteredQuery(k, filter, order) ==
  query_internal(Tbl, KeyCondition(k.pk, None), filter, QueryOptions(NoLimit, TRUE), order)

FilteredGsiQuery(filter, order) ==
  query_gsi(Tbl, GsiName, QueryRequest(KeyCondition(S(<<"x">>), None), filter,
                                       QueryOptions(NoLimit, TRUE)), order)

FilteredLsiQuery(filter, order) ==
  query_lsi(Tbl, LsiName, QueryRequest(KeyCondition(S(<<"a">>), None), filter,
                                       QueryOptions(NoLimit, TRUE)), order)

ConditionedTxItems(k) ==
  { TxPut(MkItem(k, N(<<"1">>)), CondStLe),
    TxUpdate(k, <<Set(attr(VName), N(<<"2">>))>>, CondStLe),
    TxDelete(k, CondStLe),
    TxConditionCheck(k, CondStLe) }

SeqRange(s) == {s[i] : i \in 1..Len(s)}

\* the query result r is the unfiltered result u without the items on which
\* the filter is not true, the erring ones included
DropsErring(r, u) ==
  /\ r.status = "Ok"
  /\ u.status = "Ok"
  /\ r.result.items = SelectSeq(u.result.items, LAMBDA item : evaluate(CondStLe, item) = "true")
  /\ \A item \in SeqRange(u.result.items) : ErrsOn(item) => item \notin SeqRange(r.result.items)

\* C35 (amended): a TypeMismatch raised while evaluating a scan filter, a
\* query filter (table, GSI or LSI) or the condition of a write-transaction
\* item is treated as the condition being false: the scan or the query
\* succeeds without the item, and the transaction is cancelled with
\* ConditionCheckFailed for that item and writes nothing.
C35_FilterErrorIsFalse ==
  /\ \A order \in Orders(DOMAIN storage) :
       /\ FilteredScan(order).status = "Ok"
       /\ SeqRange(FilteredScan(order).items)
            = {item \in ScanOf(storage) : evaluate(CondStLe, item) = "true"}
       /\ \A k \in Keys :
            DropsErring(FilteredQuery(k, CondStLe, order), FilteredQuery(k, None, order))
  /\ GsiName \in DOMAIN gsis =>
       \A order \in Orders(DOMAIN gsis[GsiName].data) :
         DropsErring(FilteredGsiQuery(CondStLe, order), FilteredGsiQuery(None, order))
  /\ LsiName \in DOMAIN lsis =>
       \A order \in Orders(DOMAIN lsis[LsiName].data) :
         DropsErring(FilteredLsiQuery(CondStLe, order), FilteredLsiQuery(None, order))
  /\ \A k \in Keys : \A item \in ConditionedTxItems(k) :
       ErrsOn(CurrentOrEmpty(Tbl, k)) =>
         /\ transact_write(Tbl, <<item>>).status = "TransactionCanceled"
         /\ transact_write(Tbl, <<item>>).reasons
              = <<Failure("ConditionCheckFailed", 0)>>
         /\ transact_write(Tbl, <<item>>).T = Tbl

\* C35 as stated: a TypeMismatch raised while evaluating a scan filter, a
\* query filter (table, GSI or LSI) or the condition of a write-transaction
\* item is surfaced to the caller as ConditionError.
C35_FilterErrorSurfaced ==
  /\ \A order \in Orders(DOMAIN storage) :
       (\E item \in ScanOf(storage) : ErrsOn(item)) =>
         FilteredScan(order).status = "ConditionError"
  /\ \A order \in Orders(DOMAIN storage) : \A k \in Keys :
       (\E item \in SeqRange(FilteredQuery(k, None, order).result.items) : ErrsOn(item)) =>
         FilteredQuery(k, CondStLe, order).status = "ConditionError"
  /\ GsiName \in DOMAIN gsis =>
       \A order \in Orders(DOMAIN gsis[GsiName].data) :
         (\E item \in SeqRange(FilteredGsiQuery(None, order).result.items) : ErrsOn(item)) =>
           FilteredGsiQuery(CondStLe, order).status = "ConditionError"
  /\ LsiName \in DOMAIN lsis =>
       \A order \in Orders(DOMAIN lsis[LsiName].data) :
         (\E item \in SeqRange(FilteredLsiQuery(None, order).result.items) : ErrsOn(item)) =>
           FilteredLsiQuery(CondStLe, order).status = "ConditionError"
  /\ \A k \in Keys : \A item \in ConditionedTxItems(k) :
       ErrsOn(CurrentOrEmpty(Tbl, k)) =>
         transact_write(Tbl, <<item>>).status = "ConditionError"

\* a transaction was cancelled on a table holding an item with a string st
\* and an item with st = 1, with both indexes present: the scan, the table
\* query and the LSI query with the filter all succeed, the erring item is in
\* the unfiltered results and in none of the filtered ones
C35_Witness ==
  /\ last.op = "TransactWrite"
  /\ last.status = "TransactionCanceled"
  /\ GsiName \in DOMAIN gsis
  /\ LsiName \in DOMAIN lsis
  /\ \E k \in Keys :
       /\ ErrsOn(CurrentOrEmpty(Tbl, k))
       /\ transact_write(Tbl, <<TxDelete(k, CondStLe)>>).status = "TransactionCanceled"
       /\ \A order \in Orders(DOMAIN storage) :
            /\ CurrentOrEmpty(Tbl, k) \in SeqRange(FilteredQuery(k, None, order).result.items)
            /\ CurrentOrEmpty(Tbl, k) \notin SeqRange(FilteredQuery(k, CondStLe, order).result.items)
            /\ CurrentOrEmpty(Tbl, k) \notin SeqRange(FilteredScan(order).items)
  /\ \E item \in ScanOf(storage) : evaluate(CondStLe, item) = "true"
  /\ \A order \in Orders(DOMAIN lsis[LsiName].data) :
       \E item \in SeqRange(FilteredLsiQuery(None, order).result.items) : ErrsOn(item)

\* the transaction result tx and the standalone result alone agree: both
\* succeed or both fail, and on success they leave the same table and indexes
SameOutcome(tx, alone) ==
  /\ (tx.status = "Ok") <=> (alone.status = "Ok")
  /\ tx.status = "Ok" => tx.T = alone.T

PlainPuts == {request \in PutRequests : ~request.if_not_exists}

\* C36: a write transaction of a single Put, Update or Delete item, with or
\* without a condition, succeeds exactly when the same operation issued as a
\* standalone put, update or delete with that condition succeeds, and on
\* success leaves the same table and index contents.
C36_SingleItemTransactionAsStandalone ==
  /\ \A request \in PlainPuts :
       SameOutcome(transact_write(Tbl, <<TxPut(request.item, request.condition)>>),
                   put(Tbl, request))
  /\ \A request \in UpdateRequests :
       SameOutcome(transact_write(Tbl, <<TxUpdate(request.key, request.expression,
                                                  request.condition)>>),
                   update_internal(Tbl, request.key, request.expression,
                                   request.condition, "None"))
  /\ \A request \in DeleteRequests :
       SameOutcome(transact_write(Tbl, <<TxDelete(request.key, request.condition)>>),
                   delete_internal(Tbl, request.key, request.condition, "None"))

\* a transaction was committed on a table with both indexes: a conditional
\* single-item transaction succeeds and changes the table, one replaces a
\* stored item, one is cancelled on its condition and one on a missing item
C36_Witness ==
  /\ last.op = "TransactWrite"
  /\ last.status = "Ok"
  /\ GsiName \in DOMAIN gsis
  /\ LsiName \in DOMAIN lsis
  /\ \E request \in DeleteRequests :
       /\ request.condition # None
       /\ transact_write(Tbl, <<TxDelete(request.key, request.condition)>>).status = "Ok"
       /\ transact_write(Tbl, <<TxDelete(request.key, request.condition)>>).T # Tbl
  /\ \E request \in {r \in PlainPuts : r.item \in Items} :
       /\ get(Tbl, extract_key(request.item, TableSchema)).item \notin {NoItem, request.item}
       /\ transact_write(Tbl, <<TxPut(request.item, request.condition)>>).status = "Ok"
  /\ \E request \in PlainPuts :
       /\ request.condition # None
       /\ put(Tbl, request).status = "ConditionFailed"
  /\ \E request \in UpdateRequests :
       update_internal(Tbl, request.key, request.expression, request.condition,
                       "None").status = "ItemNotFound"
  /\ \E request \in UpdateRequests :
       /\ transact_write(Tbl, <<TxUpdate(request.key, request.expression,
                                         request.condition)>>).status = "Ok"
       /\ transact_write(Tbl, <<TxUpdate(request.key, request.expression,
                                         request.condition)>>).T # Tbl

\* the table after the entries have been applied one after the other as
\* standalone put_item and delete_item calls, a refused call changing nothing
RECURSIVE AppliedInTurn(_, _)
AppliedInTurn(T, entries) ==
  IF entries = <<>> THEN T
  ELSE AppliedInTurn(IF entries[1].t = "Put" THEN put_item(T, entries[1].item).T
                     ELSE delete_item(T, entries[1].key).T,
                     Tail(entries))

PutsOf(request) == SelectSeq(request, LAMBDA entry : entry.t = "Put")
DeletesOf(request) == SelectSeq(request, LAMBDA entry : entry.t = "Delete")

\* the key is that of a Put entry and of a Delete entry of the request
PutAndDeleted(request, key) ==
  /\ \E i \in 1..Len(request) :
       /\ request[i].t = "Put"
       /\ extract_key(request[i].item, TableSchema) = key
  /\ \E i \in 1..Len(request) : request[i].t = "Delete" /\ request[i].key = key

\* C37: within one batch_write all Put entries are applied, in request order,
\* before any Delete entry, whatever their positions in the request; a key
\* that appears in both a Put and a Delete of the batch holds no item
\* afterwards.
C37_BatchPutsBeforeDeletes ==
  \A request \in BatchRequests :
    /\ batch_write(Tbl, request).T
         = AppliedInTurn(Tbl, PutsOf(request) \o DeletesOf(request))
    /\ \A key \in Keys :
         PutAndDeleted(request, key) => get(batch_write(Tbl, request).T, key).item = NoItem

\* after a batch the key K1 holds nothing and another key holds an item; the
\* batch that deletes K1 and then puts an item under K1 leaves this table as
\* it is, while the two entries applied in request order would store the item
C37_Witness ==
  /\ last.op = "BatchWrite"
  /\ get(Tbl, K1).item = NoItem
  /\ Cardinality(DOMAIN storage) = 1
  /\ <<BatchDelete(K1), BatchPut(I1x)>> \in BatchRequests
  /\ batch_write(Tbl, <<BatchDelete(K1), BatchPut(I1x)>>).T = Tbl
  /\ get(AppliedInTurn(Tbl, <<BatchDelete(K1), BatchPut(I1x)>>), K1).item = I1x

\* the items that satisfy the key condition of the recorded query, in the
\* order of its direction: what the query returns without filter and limit
FilterKeyMatches ==
  query_internal(Tbl, call.key_condition, None,
                 QueryOptions(NoLimit, call.options.scan_forward), call.order).result.items

FilterPassing(items) ==
  SelectSeq(items, LAMBDA item : call.filter = None \/ evaluate(call.filter, item) = "true")

FilterFirstN(items) ==
  IF call.options.limit = NoLimit THEN items ELSE Take(items, call.options.limit)

FilterQueryReturned == call.f = "query" /\ ret.f = "returned"

\* C38 (amended): for a query with a filter and a limit n, the limit counts
\* items before filtering: the result holds those of the first n items (in
\* sort order) satisfying the key condition that also satisfy the filter, and
\* count is their number.
C38_LimitBeforeFilter ==
  FilterQueryReturned =>
    /\ ret.val.status = "Ok"
    /\ ret.val.result.items = FilterPassing(FilterFirstN(FilterKeyMatches))
    /\ ret.val.result.count = Len(ret.val.result.items)

\* C38 as stated: for a query with a filter and a limit n, the limit counts
\* items after filtering: the result holds the first n items (in sort order)
\* that satisfy both the key condition and the filter.
C38_LimitAfterFilter ==
  FilterQueryReturned =>
    /\ ret.val.status = "Ok"
    /\ ret.val.result.items = FilterFirstN(FilterPassing(FilterKeyMatches))

\* a query with a filter and limit 1 over two items of the partition, the first
\* of which fails the filter and the second of which passes: it returned nothing
C38_Witness ==
  /\ FilterQueryReturned
  /\ call.filter # None
  /\ call.options.limit = 1
  /\ Len(FilterKeyMatches) = 2
  /\ Len(FilterPassing(FilterKeyMatches)) = 1
  /\ ret.val.result.items = <<>>

\* the types of the operands of a sort-key operator: its value, and for
\* Between its two bounds
OperandTypes(op) == IF op.t = "Between" THEN {op.v.t, op.high.t} ELSE {op.v.t}

\* validate_condition has returned for a condition whose partition key has the
\* schema's type, under a schema with a sort key, and whose sort-key operator
\* has an operand of another type than the sort key
SortOperandMismatch ==
  /\ call.f = "validate_condition"
  /\ ret.f = "returned"
  /\ call.condition.partition_key.t = call.schema.partition_key.key_type
  /\ call.schema.sort_key # NoAttr
  /\ call.condition.sort_key # None
  /\ \E t \in OperandTypes(call.condition.sort_key) : t # call.schema.sort_key.key_type

\* C39: validate_condition rejects with InvalidKey(TypeMismatch) every
\* sort-key condition that has an operand whose type differs from the
\* schema's sort-key type, for every operator, including either bound (low or
\* high) of Between.
C39_SortOperandTypeChecked ==
  SortOperandMismatch => ret.val = "TypeMismatch"

\* the table keys with a live entry
LiveKeys == {t \in StorageTableKeys : last.live[t] # None}

\* seen from the current IndexStorage: remove_by_table_key(t) returns the value
\* most recently put for t (None if t has no live entry) and leaves the value
\* of every other live table key retrievable, and len() is the number of live
\* table keys
EntriesIndependent ==
  /\ \A t \in StorageTableKeys :
       /\ index_storage_remove_by_table_key(storage, t).old = last.live[t]
       /\ \A u \in LiveKeys \ {t} :
            /\ u \in DOMAIN index_storage_remove_by_table_key(storage, t).st.reverse_index
            /\ index_storage_get(
                 index_storage_remove_by_table_key(storage, t).st,
                 index_storage_remove_by_table_key(storage, t).st.reverse_index[u])
                 = last.live[u]
  /\ index_storage_len(storage) = Cardinality(LiveKeys)

\* C40 (amended): in IndexStorage, entries of different table keys are
\* independent as long as no put uses an index key under which another table
\* key has a live entry: after any such sequence of put and
\* remove_by_table_key calls, remove_by_table_key(t) removes and returns the
\* value most recently put for t (None if t has no live entry), every other
\* table key's value stays retrievable, and len() equals the number of table
\* keys with a live entry.
C40_IndependentUnderDistinctIndexKeys ==
  ~last.shared => EntriesIndependent

\* C40 as stated: the same for any choice of index keys.
C40_IndependentForAnyIndexKeys == EntriesIndependent

\* remove_by_table_key has returned the value of a table key that had been put
\* twice, under two index keys; the other table key is live under its own
\* index key, and no index key was ever shared
C40_Witness ==
  /\ ~last.shared
  /\ call.f = "remove_by_table_key"
  /\ ret.val = S(<<"y">>)
  /\ Cardinality(LiveKeys) = 1
  /\ index_storage_len(storage) = 1
  /\ \A u \in LiveKeys : index_storage_get(storage, storage.reverse_index[u]) = S(<<"x">>)

====
